---- MODULE Spec2Model ----
(***************************************************************************)
(* Model of vix::conversion: strict, locale-free text <-> scalar           *)
(* conversions (to_int, to_bool, to_float, to_enum, to_string).            *)
(*                                                                         *)
(* Text is a sequence of ASCII codes.  Every conversion is a pure          *)
(* function of its arguments; one action per public entry point applies    *)
(* it to arguments drawn from bounded sets and stores the returned         *)
(* expected<T, ConversionError> in `result` (Spec).  Further               *)
(* specifications look inside: SpecFloat at the floating-point calls,      *)
(* SpecTrim at detail::trim, SpecPad at calls repeated on a padded text,   *)
(* SpecLoop at parse_integer's loop pass by pass, SpecThreads at to_float  *)
(* called from several threads, SpecBuffer at to_float on one view in two  *)
(* buffers, SpecEnumTrip at to_enum of what to_string wrote, SpecExpected  *)
(* at the fallback expected<T, E>, SpecScan at every loop of the library   *)
(* pass by pass.                                                           *)
(***************************************************************************)
EXTENDS Integers, Sequences, FiniteSets, TLC

VARIABLES
  op,               \* entry point of the call in progress ("idle" between calls)
  input,            \* the std::string_view passed by the caller
  tail,             \* bytes that follow the view in the caller's buffer
  target,           \* the integral type Int of to_int<Int> / to_string<Int>
  entries,          \* the EnumEntry table passed by the caller
  case_insensitive, \* to_enum's case_insensitive argument
  value,            \* the value passed to to_string
  source,           \* where `input` came from: "caller", "to_string", "trim"
                    \* or "padded"
  host,             \* what the host floating-point primitive reported
  result,           \* the expected<T, ConversionError> returned
  prior,            \* what the same parser returned before whitespace was added
  loop,             \* parse_integer's locals while its loop runs step by step
  threads,          \* concurrent to_float calls and the errno cells they use
  objects,          \* fallback expected<T, E> objects and what was last done
  scan              \* the locals of one loop of the library, run step by step

vars == <<op, input, tail, target, entries, case_insensitive, value, source,
          host, result, prior, loop, threads, objects, scan>>

(***************************************************************************)
(* Bounds of the model.                                                    *)
(***************************************************************************)
\* longest text handed to to_int
MaxIntLen == 4

\* width in bits of the modelled integral target types
IntBits == 8

\* longest whitespace run added on each side of a padded text
MaxPad == 1

\* longest unpadded text over the boolean alphabet handed to to_bool
MaxBoolLen == 3

\* longest text handed to to_enum, and most entries of a table
MaxEnumLen == 3

MaxEntries == 2

\* longest text handed to to_float, and most bytes modelled after the view
MaxFloatLen == 4

MaxTailLen == 1

\* longest text handed to detail::trim
MaxTrimLen == 5

\* longest text to which the second, padded call is applied
MaxRepadLen == 2

\* number of threads calling to_float at the same time
NThreads == 2

(***************************************************************************)
(* expected<T, ConversionError> and ConversionError                        *)
(***************************************************************************)
Ok(v) == [ok |-> TRUE, value |-> v]

\* ConversionError{code, input, position}; position defaults to 0
Err(code, in, pos) == [ok |-> FALSE, code |-> code, input |-> in, position |-> pos]

(***************************************************************************)
(* detail/Ascii.hpp                                                        *)
(***************************************************************************)
\* is_space without the vertical tab
is_space_no_vtab(c) ==
  c = 32 \/ c = 9 \/ c = 10 \/ c = 13 \/ c = 12

is_space(c) ==
  c = 32 \/ c = 9 \/ c = 10 \/ c = 13 \/ c = 12 \/ c = 11

is_digit(c) == c >= 48 /\ c <= 57

\* is_upper with both range ends excluded
is_upper_exclusive(c) == c > 65 /\ c < 90

is_upper(c) == c >= 65 /\ c <= 90

to_lower(c) == IF is_upper(c) THEN c + (97 - 65) ELSE c

(***************************************************************************)
(* detail/Trim.hpp                                                         *)
(***************************************************************************)
RECURSIVE ltrim_loop(_, _)
\* the while loop of ltrim: the final value of i
ltrim_loop(s, i) ==
  IF i < Len(s) /\ is_space(s[i + 1]) THEN ltrim_loop(s, i + 1) ELSE i

ltrim(s) == SubSeq(s, ltrim_loop(s, 0) + 1, Len(s))

RECURSIVE rtrim_loop(_, _)
\* the while loop of rtrim: the final value of n
rtrim_loop(s, n) ==
  IF n > 0 /\ is_space(s[n]) THEN rtrim_loop(s, n - 1) ELSE n

rtrim(s) == SubSeq(s, 1, rtrim_loop(s, Len(s)))

\* trim that strips the front only
trim_front_only(s) == ltrim(s)

trim(s) == rtrim(ltrim(s))

(***************************************************************************)
(* Integral target types: std::numeric_limits<Int>                         *)
(***************************************************************************)
IntType(signed, bits) == [signed |-> signed, bits |-> bits]

NoType == IntType(FALSE, 0)

IntTypes == { IntType(TRUE, IntBits), IntType(FALSE, IntBits) }

Limits_min(T) == IF T.signed THEN -(2 ^ (T.bits - 1)) ELSE 0

Limits_max(T) == IF T.signed THEN 2 ^ (T.bits - 1) - 1 ELSE 2 ^ T.bits - 1

\* conversion of an int expression to Int on assignment (modular)
Narrow(T, x) ==
  LET m == x % (2 ^ T.bits) IN
  IF T.signed /\ m >= 2 ^ (T.bits - 1) THEN m - 2 ^ T.bits ELSE m

\* division rounding toward minus infinity
CDivFloor(a, b) == a \div b

\* C++ integer division: truncation toward zero (b > 0)
CDiv(a, b) == IF a >= 0 THEN a \div b ELSE -((-a) \div b)

(***************************************************************************)
(* detail/IntegerParse.hpp                                                 *)
(***************************************************************************)
\* the underflow guard with the incoming digit left out of the bound
UnderflowGuardNoDigit(T, v, digit) == v < CDiv(Limits_min(T), 10)

\* guard of the negative signed path: value * 10 - digit would pass min
UnderflowGuard(T, v, digit) == v < CDiv(Limits_min(T) + digit, 10)

\* the overflow guard with the incoming digit left out of the bound
OverflowGuardNoDigit(T, v, digit) == v > CDiv(Limits_max(T), 10)

\* guard of the non-negative paths: value * 10 + digit would pass max
OverflowGuard(T, v, digit) == v > CDiv(Limits_max(T) - digit, 10)

\* a pass of the loop that reports a range error at index 0
parse_integer_iter_at_start(in, T, negative, i, v) ==
  LET c     == in[i + 1]
      digit == c - 48
  IN
  IF ~is_digit(c)
  THEN [error |-> TRUE, result |-> Err("InvalidCharacter", in, i), raw |-> v]
  ELSE IF negative
       THEN IF ~T.signed \/ UnderflowGuard(T, v, digit)
            THEN [error |-> TRUE, result |-> Err("Underflow", in, 0), raw |-> v]
            ELSE [error |-> FALSE, result |-> Ok(Narrow(T, v * 10 - digit)),
                  raw |-> v * 10 - digit]
       ELSE IF OverflowGuard(T, v, digit)
            THEN [error |-> TRUE, result |-> Err("Overflow", in, 0), raw |-> v]
            ELSE [error |-> FALSE, result |-> Ok(Narrow(T, v * 10 + digit)),
                  raw |-> v * 10 + digit]

\* one pass through the body of the for loop, at index i with accumulator v:
\* the error it returns, or the accumulator it leaves; raw is the value of
\* value * 10 -+ digit before it is converted to Int
parse_integer_iter(in, T, negative, i, v) ==
  LET c     == in[i + 1]
      digit == c - 48
  IN
  IF ~is_digit(c)
  THEN [error |-> TRUE, result |-> Err("InvalidCharacter", in, i), raw |-> v]
  ELSE IF T.signed
       THEN IF negative
            THEN IF UnderflowGuard(T, v, digit)
                 THEN [error |-> TRUE, result |-> Err("Underflow", in, i), raw |-> v]
                 ELSE [error |-> FALSE, result |-> Ok(Narrow(T, v * 10 - digit)),
                       raw |-> v * 10 - digit]
            ELSE IF OverflowGuard(T, v, digit)
                 THEN [error |-> TRUE, result |-> Err("Overflow", in, i), raw |-> v]
                 ELSE [error |-> FALSE, result |-> Ok(Narrow(T, v * 10 + digit)),
                       raw |-> v * 10 + digit]
       ELSE IF negative
            THEN [error |-> TRUE, result |-> Err("Underflow", in, 0), raw |-> v]
            ELSE IF OverflowGuard(T, v, digit)
                 THEN [error |-> TRUE, result |-> Err("Overflow", in, i), raw |-> v]
                 ELSE [error |-> FALSE, result |-> Ok(Narrow(T, v * 10 + digit)),
                       raw |-> v * 10 + digit]

RECURSIVE parse_integer_loop(_, _, _, _, _, _)
\* the for loop over the digits and the has_digit check after it
parse_integer_loop(in, T, negative, i, v, has_digit) ==
  IF i < Len(in)
  THEN LET c == in[i + 1] IN
       IF ~is_digit(c)
       THEN Err("InvalidCharacter", in, i)
       ELSE LET digit == c - 48 IN
            IF T.signed
            THEN IF negative
                 THEN IF UnderflowGuard(T, v, digit)
                      THEN Err("Underflow", in, i)
                      ELSE parse_integer_loop(in, T, negative, i + 1,
                                              Narrow(T, v * 10 - digit), TRUE)
                 ELSE IF OverflowGuard(T, v, digit)
                      THEN Err("Overflow", in, i)
                      ELSE parse_integer_loop(in, T, negative, i + 1,
                                              Narrow(T, v * 10 + digit), TRUE)
            ELSE IF negative
                 THEN Err("Underflow", in, 0)
                 ELSE IF OverflowGuard(T, v, digit)
                      THEN Err("Overflow", in, i)
                      ELSE parse_integer_loop(in, T, negative, i + 1,
                                              Narrow(T, v * 10 + digit), TRUE)
  ELSE IF ~has_digit
       THEN Err("InvalidCharacter", in, 0)
       ELSE Ok(v)

\* parse_integer recognising '+' only as a sign character
parse_integer_plus_only(in, T) ==
  IF Len(in) = 0
  THEN Err("EmptyInput", in, 0)
  ELSE IF in[1] = 43
       THEN IF Len(in) = 1
            THEN Err("InvalidCharacter", in, 0)
            ELSE parse_integer_loop(in, T, FALSE, 1, 0, FALSE)
       ELSE parse_integer_loop(in, T, FALSE, 0, 0, FALSE)

RECURSIVE SkipSigns(_, _)
SkipSigns(in, i) ==
  IF i < Len(in) /\ (in[i + 1] = 43 \/ in[i + 1] = 45) THEN SkipSigns(in, i + 1) ELSE i

\* parse_integer skipping a run of sign characters instead of a single one
parse_integer_sign_run(in, T) ==
  IF Len(in) = 0
  THEN Err("EmptyInput", in, 0)
  ELSE IF SkipSigns(in, 0) = Len(in)
       THEN Err("InvalidCharacter", in, Len(in) - 1)
       ELSE parse_integer_loop(in, T, in[1] = 45, SkipSigns(in, 0), 0, FALSE)

parse_integer(in, T) ==
  IF Len(in) = 0
  THEN Err("EmptyInput", in, 0)
  ELSE IF in[1] = 43 \/ in[1] = 45
       THEN IF Len(in) = 1
            THEN Err("InvalidCharacter", in, 0)
            ELSE parse_integer_loop(in, T, in[1] = 45, 1, 0, FALSE)
       ELSE parse_integer_loop(in, T, FALSE, 0, 0, FALSE)

(***************************************************************************)
(* ToInt.hpp                                                               *)
(***************************************************************************)
\* to_int handing the inner error on without restoring the original input
to_int_inner_error(in, T) ==
  LET trimmed == trim(in) IN
  IF Len(trimmed) = 0
  THEN Err("EmptyInput", in, 0)
  ELSE parse_integer(trimmed, T)

to_int(in, T) ==
  LET trimmed == trim(in) IN
  IF Len(trimmed) = 0
  THEN Err("EmptyInput", in, 0)
  ELSE LET r == parse_integer(trimmed, T) IN
       IF ~r.ok THEN [r EXCEPT !.input = in] ELSE Ok(r.value)

(***************************************************************************)
(* ToBool.hpp                                                              *)
(***************************************************************************)
RECURSIVE iequals_loop(_, _, _)
\* the for loop of iequals, from index i
iequals_loop(a, b, i) ==
  IF i < Len(a)
  THEN IF to_lower(a[i + 1]) # to_lower(b[i + 1])
       THEN FALSE
       ELSE iequals_loop(a, b, i + 1)
  ELSE TRUE

iequals(a, b) == IF Len(a) # Len(b) THEN FALSE ELSE iequals_loop(a, b, 0)

\* the keyword literals of to_bool, as ASCII codes
KW_true == <<116, 114, 117, 101>>

KW_yes == <<121, 101, 115>>

KW_on == <<111, 110>>

KW_false == <<102, 97, 108, 115, 101>>

KW_no == <<110, 111>>

KW_off == <<111, 102, 102>>

\* the first if of to_bool
IsTruthy(s) ==
  s = <<49>> \/ iequals(s, KW_true) \/ iequals(s, KW_yes) \/ iequals(s, KW_on)

\* the second if of to_bool
IsFalsy(s) ==
  s = <<48>> \/ iequals(s, KW_false) \/ iequals(s, KW_no) \/ iequals(s, KW_off)

\* to_bool reporting an unknown word with the integer parser's code
to_bool_invalid_character(in) ==
  LET s == trim(in) IN
  IF Len(s) = 0
  THEN Err("EmptyInput", in, 0)
  ELSE IF IsTruthy(s)
       THEN Ok(TRUE)
       ELSE IF IsFalsy(s)
            THEN Ok(FALSE)
            ELSE Err("InvalidCharacter", in, 0)

to_bool(in) ==
  LET s == trim(in) IN
  IF Len(s) = 0
  THEN Err("EmptyInput", in, 0)
  ELSE IF IsTruthy(s)
       THEN Ok(TRUE)
       ELSE IF IsFalsy(s)
            THEN Ok(FALSE)
            ELSE Err("InvalidBoolean", in, 0)

(***************************************************************************)
(* ToEnum.hpp                                                              *)
(***************************************************************************)
EnumEntry(name, v) == [name |-> name, value |-> v]

RECURSIVE to_enum_match(_, _, _, _)
\* the inner for loop of to_enum, from index j: the final value of match
to_enum_match(s, name, ci, j) ==
  IF j < Len(s)
  THEN LET a == IF ci THEN to_lower(s[j + 1]) ELSE s[j + 1]
           b == IF ci THEN to_lower(name[j + 1]) ELSE name[j + 1]
       IN IF a # b THEN FALSE ELSE to_enum_match(s, name, ci, j + 1)
  ELSE TRUE

RECURSIVE to_enum_scan_prefix(_, _, _, _, _)
\* to_enum's outer loop without the size test: an entry matches as soon as
\* the text is a prefix of its name
to_enum_scan_prefix(in, s, tbl, ci, i) ==
  IF i < Len(tbl)
  THEN LET name == tbl[i + 1].name IN
       IF Len(name) < Len(s)
       THEN to_enum_scan_prefix(in, s, tbl, ci, i + 1)
       ELSE IF to_enum_match(s, name, ci, 0)
            THEN Ok(tbl[i + 1].value)
            ELSE to_enum_scan_prefix(in, s, tbl, ci, i + 1)
  ELSE Err("UnknownEnumValue", in, 0)

RECURSIVE to_enum_scan(_, _, _, _, _)
\* the outer for loop of to_enum, from entry i, and the return after it
to_enum_scan(in, s, tbl, ci, i) ==
  IF i < Len(tbl)
  THEN LET name == tbl[i + 1].name IN
       IF Len(name) # Len(s)
       THEN to_enum_scan(in, s, tbl, ci, i + 1)
       ELSE IF to_enum_match(s, name, ci, 0)
            THEN Ok(tbl[i + 1].value)
            ELSE to_enum_scan(in, s, tbl, ci, i + 1)
  ELSE Err("UnknownEnumValue", in, 0)

\* to_enum comparing exactly whatever case_insensitive says
to_enum_exact(in, tbl, ci) ==
  LET s == trim(in) IN
  IF Len(s) = 0
  THEN Err("EmptyInput", in, 0)
  ELSE to_enum_scan(in, s, tbl, FALSE, 0)

to_enum(in, tbl, ci) ==
  LET s == trim(in) IN
  IF Len(s) = 0
  THEN Err("EmptyInput", in, 0)
  ELSE to_enum_scan(in, s, tbl, ci, 0)

(***************************************************************************)
(* ToString.hpp                                                            *)
(***************************************************************************)
RECURSIVE to_chars_digits(_)
\* std::to_chars of a non-negative value: base 10, no leading zeros
to_chars_digits(n) ==
  IF n < 10
  THEN <<48 + n>>
  ELSE to_chars_digits(n \div 10) \o <<48 + (n % 10)>>

\* to_chars writing the magnitude without the '-'
to_chars_no_sign(v) == to_chars_digits(IF v < 0 THEN -v ELSE v)

\* std::to_chars(buffer, buffer + 64, value): the characters written
to_chars(v) == IF v < 0 THEN <<45>> \o to_chars_digits(-v) ELSE to_chars_digits(v)

to_string_int(v) ==
  LET text == to_chars(v) IN
  IF Len(text) > 64 THEN Err("InvalidCharacter", <<>>, 0) ELSE Ok(text)

RECURSIVE to_string_enum_scan(_, _, _)
\* the for loop of to_string(Enum, entries, count), from entry i
to_string_enum_scan(v, tbl, i) ==
  IF i < Len(tbl)
  THEN IF tbl[i + 1].value = v
       THEN Ok(tbl[i + 1].name)
       ELSE to_string_enum_scan(v, tbl, i + 1)
  ELSE Err("UnknownEnumValue", <<>>, 0)

\* to_string(Enum) keeping the last entry with the value instead of the first
to_string_enum_last(v, tbl) ==
  IF \E i \in 1..Len(tbl) : tbl[i].value = v
  THEN Ok(tbl[CHOOSE i \in 1..Len(tbl) :
              /\ tbl[i].value = v
              /\ \A j \in (i + 1)..Len(tbl) : tbl[j].value # v].name)
  ELSE Err("UnknownEnumValue", <<>>, 0)

to_string_enum(v, tbl) == to_string_enum_scan(v, tbl, 0)

(***************************************************************************)
(* detail/FloatParse.hpp and ToFloat.hpp                                   *)
(***************************************************************************)
RECURSIVE SkipDigits(_, _)
SkipDigits(buf, p) ==
  IF p < Len(buf) /\ is_digit(buf[p + 1]) THEN SkipDigits(buf, p + 1) ELSE p

RECURSIVE SkipSpace(_, _)
SkipSpace(buf, p) ==
  IF p < Len(buf) /\ is_space(buf[p + 1]) THEN SkipSpace(buf, p + 1) ELSE p

\* the bytes of buf after offset p spell the lower-case word w in any case
MatchesWord(buf, p, w) ==
  /\ p + Len(w) <= Len(buf)
  /\ \A i \in 1..Len(w) :
       (IF buf[p + i] >= 65 /\ buf[p + i] <= 90 THEN buf[p + i] + 32 ELSE buf[p + i])
         = w[i]

\* offset of the first byte after the white space and the optional sign
strto_start(buf) ==
  LET p0 == SkipSpace(buf, 0)
  IN IF p0 < Len(buf) /\ (buf[p0 + 1] = 43 \/ buf[p0 + 1] = 45) THEN p0 + 1 ELSE p0

\* the subject sequence starts with '-'
strto_negative(buf) ==
  LET p0 == SkipSpace(buf, 0) IN p0 < Len(buf) /\ buf[p0 + 1] = 45

\* end of the exponent part that may follow the mantissa ending at p3: an
\* 'e' or 'E', an optional sign, and digits; p3 when the digits are missing
strto_exponent_end(buf, p3) ==
  LET q == IF p3 + 1 < Len(buf) /\ (buf[p3 + 2] = 43 \/ buf[p3 + 2] = 45)
           THEN p3 + 2 ELSE p3 + 1
  IN IF p3 < Len(buf) /\ (buf[p3 + 1] = 101 \/ buf[p3 + 1] = 69)
        /\ SkipDigits(buf, q) > q
     THEN SkipDigits(buf, q)
     ELSE p3

\* end of the mantissa whose integer digits run from p1 to p2: a '.' and
\* the digits after it are taken
strto_fraction_end(buf, p2) ==
  IF p2 < Len(buf) /\ buf[p2 + 1] = 46 THEN SkipDigits(buf, p2 + 1) ELSE p2

\* the decimal form from p1, its integer digits ending at p2 and its
\* mantissa at p3: 0 when the mantissa has no digit
strto_mantissa_end(buf, p1, p2, p3) ==
  IF (p2 - p1) + (IF p3 > p2 THEN p3 - p2 - 1 ELSE 0) > 0
  THEN strto_exponent_end(buf, p3)
  ELSE 0

\* the decimal form from p1, its integer digits ending at p2
strto_digits_end(buf, p1, p2) ==
  strto_mantissa_end(buf, p1, p2, strto_fraction_end(buf, p2))

\* end of the decimal form: digits with an optional '.', then an optional
\* exponent that counts only when it has digits; 0 when there is no digit
strto_decimal_end(buf) ==
  strto_digits_end(buf, strto_start(buf), SkipDigits(buf, strto_start(buf)))

\* which form of subject sequence the primitive finds at `begin`:
\* "inf" or "infinity", "nan", the decimal form, or none.  (The hexadecimal
\* form and "nan(...)" need bytes that no modelled input contains.)
strto_kind(buf) ==
  LET p1 == strto_start(buf) IN
  IF MatchesWord(buf, p1, <<105, 110, 102>>) THEN "inf"
  ELSE IF MatchesWord(buf, p1, <<110, 97, 110>>) THEN "nan"
  ELSE IF strto_decimal_end(buf) > 0 THEN "decimal"
  ELSE "none"

\* std::strtof / strtod / strtold in the "C" locale on the bytes at `begin`:
\* the number of bytes up to the end pointer; 0 when no conversion is done
strto_end(buf) ==
  LET p1 == strto_start(buf) IN
  IF MatchesWord(buf, p1, <<105, 110, 102, 105, 110, 105, 116, 121>>) THEN p1 + 8
  ELSE IF strto_kind(buf) \in {"inf", "nan"} THEN p1 + 3
  ELSE strto_decimal_end(buf)

\* what the primitive may report for a decimal subject sequence besides the
\* end pointer: errno == ERANGE, and the class of the magnitude it returned.
\* A result below the smallest normal number sets ERANGE or not, as the
\* implementation chooses.
HostOutcomes ==
  { [erange |-> FALSE, value |-> "zero"],
    [erange |-> FALSE, value |-> "subnormal"],
    [erange |-> FALSE, value |-> "normal"],
    [erange |-> TRUE, value |-> "zero"],
    [erange |-> TRUE, value |-> "subnormal"],
    [erange |-> TRUE, value |-> "inf"] }

\* the outcomes possible on the bytes buf
strto_outcomes(buf) ==
  CASE strto_kind(buf) = "decimal" -> HostOutcomes
    [] strto_kind(buf) = "inf" -> { [erange |-> FALSE, value |-> "inf"] }
    [] strto_kind(buf) = "nan" -> { [erange |-> FALSE, value |-> "nan"] }
    [] OTHER -> { [erange |-> FALSE, value |-> "zero"] }

\* a floating-point value: its sign and the class of its magnitude
FloatValue(neg, mag) == [negative |-> neg, magnitude |-> mag]

\* the three things parse_float takes from the primitive: end - begin,
\* errno == ERANGE, and the long double returned
strto(buf, h) ==
  [consumed |-> strto_end(buf),
   erange   |-> h.erange,
   value    |-> FloatValue(strto_negative(buf) /\ strto_end(buf) > 0, h.value)]

\* end == nullptr, errno left at 0 and value 0.0L: the primitive not called
NoOutcome ==
  [consumed |-> 0, erange |-> FALSE, value |-> FloatValue(FALSE, "zero")]

\* value == 0.0L
IsZeroValue(v) == v.magnitude = "zero"

\* value < lowest() || value > max() of the target type; both comparisons
\* are false of a NaN
OutOfTargetRange(v) == v.magnitude = "inf"

\* parse_float with errno tested before the end pointer
parse_float_errno_first(in, rest, h) ==
  IF Len(in) = 0
  THEN Err("EmptyInput", in, 0)
  ELSE LET r == strto(in \o rest, h) IN
       IF r.erange
       THEN IF IsZeroValue(r.value)
            THEN Err("Underflow", in, 0)
            ELSE Err("Overflow", in, 0)
       ELSE IF r.consumed = 0
            THEN Err("InvalidFloat", in, 0)
            ELSE IF r.consumed # Len(in)
                 THEN Err("TrailingCharacters", in, r.consumed)
                 ELSE IF OutOfTargetRange(r.value)
                      THEN Err("Overflow", in, 0)
                      ELSE Ok(r.value)

\* parse_float telling Underflow from Overflow by the sign of the value
parse_float_by_sign(in, rest, h) ==
  IF Len(in) = 0
  THEN Err("EmptyInput", in, 0)
  ELSE LET r == strto(in \o rest, h) IN
       IF r.consumed = 0
       THEN Err("InvalidFloat", in, 0)
       ELSE IF r.consumed # Len(in)
            THEN Err("TrailingCharacters", in, r.consumed)
            ELSE IF r.erange
                 THEN IF IsZeroValue(r.value) \/ r.value.negative
                      THEN Err("Underflow", in, 0)
                      ELSE Err("Overflow", in, 0)
                 ELSE IF OutOfTargetRange(r.value)
                      THEN Err("Overflow", in, 0)
                      ELSE Ok(r.value)

\* `in` is the view, `rest` the bytes that follow it in memory, h the
\* primitive's outcome
parse_float(in, rest, h) ==
  IF Len(in) = 0
  THEN Err("EmptyInput", in, 0)
  ELSE LET r == strto(in \o rest, h) IN
       IF r.consumed = 0
       THEN Err("InvalidFloat", in, 0)
       ELSE IF r.consumed # Len(in)
            THEN Err("TrailingCharacters", in, r.consumed)
            ELSE IF r.erange
                 THEN IF IsZeroValue(r.value)
                      THEN Err("Underflow", in, 0)
                      ELSE Err("Overflow", in, 0)
                 ELSE IF OutOfTargetRange(r.value)
                      THEN Err("Overflow", in, 0)
                      ELSE Ok(r.value)

\* the bytes at trimmed.data(): the trimmed view, the whitespace trimmed
\* off its end, and what follows the caller's view in memory
Buffer(in, after) == SubSeq(in, ltrim_loop(in, 0) + 1, Len(in)) \o after

to_float(in, after, h) ==
  LET trimmed == trim(in)
      first   == ltrim_loop(in, 0)
      rest    == SubSeq(in, first + Len(trimmed) + 1, Len(in)) \o after
  IN IF Len(trimmed) = 0
     THEN Err("EmptyInput", in, 0)
     ELSE LET r == parse_float(trimmed, rest, h) IN
          IF ~r.ok THEN [r EXCEPT !.input = in] ELSE Ok(r.value)

\* std::to_chars(buffer, buffer + 128, value): the shortest text that reads
\* back as the same value, one text standing for each class:
\* 0, 5e-324, 1.5, inf, nan, with '-' before a negative value
to_chars_float(f) ==
  (IF f.negative THEN <<45>> ELSE <<>>) \o
  (CASE f.magnitude = "zero" -> <<48>>
     [] f.magnitude = "subnormal" -> <<53, 101, 45, 51, 50, 52>>
     [] f.magnitude = "normal" -> <<49, 46, 53>>
     [] f.magnitude = "inf" -> <<105, 110, 102>>
     [] OTHER -> <<110, 97, 110>>)

\* to_string(Float): the 128-byte buffer holds every shortest text
to_string_float(f) == Ok(to_chars_float(f))

(***************************************************************************)
(* Argument sets                                                           *)
(***************************************************************************)
\* all texts of length at most n over the alphabet A
Texts(A, n) == UNION { [1..k -> A] : k \in 0..n }

\* space, tab, newline, vertical tab, form feed, carriage return
Whitespace == {32, 9, 10, 11, 12, 13}

\* the whitespace characters in the order is_space tests them
WhitespaceSeq == <<32, 9, 10, 13, 12, 11>>

\* runs of at most MaxPad whitespace characters, starting at each of the six
Pads ==
  { [i \in 1..k |-> WhitespaceSeq[((first + i) % 6) + 1]]
    : k \in 0..MaxPad, first \in 0..5 }

\* the texts of S with whitespace added on both sides
Padded(S) == { l \o s \o r : l \in Pads, r \in Pads, s \in S }

\* every way of writing the letters of w in upper or lower case
CaseVariants(w) ==
  { [i \in 1..Len(w) |->
       IF i \in m /\ w[i] >= 97 /\ w[i] <= 122 THEN w[i] - 32 ELSE w[i]]
    : m \in SUBSET (1..Len(w)) }

\* space, '+', '-', 'x' and the digits 0 1 2 5 6 7 8 9
IntAlphabet == {32, 43, 45, 120, 48, 49, 50} \cup (53..57)

IntInputs == Texts(IntAlphabet, MaxIntLen) \cup Padded(Texts(IntAlphabet, 2))

\* space, '0', '1', '2', and the letters of "on", "no", "off" in both cases
BoolAlphabet == {32, 48, 49, 50, 110, 111, 102, 78, 79, 70}

\* the longer keywords and near misses of them:
\* true, yes, false, truee, t rue, tru, yess, fals, ttrue
BoolWords ==
  { KW_true, KW_yes, KW_false,
    <<116, 114, 117, 101, 101>>, <<116, 32, 114, 117, 101>>,
    <<116, 114, 117>>, <<121, 101, 115, 115>>, <<102, 97, 108, 115>>,
    <<116, 116, 114, 117, 101>> }

BoolInputs ==
  Texts(BoolAlphabet, MaxBoolLen)
    \cup Padded(UNION { CaseVariants(w) : w \in BoolWords })
    \cup Padded(Texts(BoolAlphabet, 2))

\* 'a', 'A', 'b', 'B'
EnumAlphabet == {97, 65, 98, 66}

EnumInputs ==
  Texts(EnumAlphabet, MaxEnumLen) \cup Padded({<<>>, <<65>>, <<97, 32, 98>>})

\* the names a, A, ab and the enumerators 1, 2
EnumNames == { <<97>>, <<65>>, <<97, 98>> }

EnumValues == {1, 2}

Tables ==
  UNION { [1..k -> { EnumEntry(n, v) : n \in EnumNames, v \in EnumValues }]
          : k \in 0..MaxEntries }

\* names for the round trip: those of EnumNames, the empty name, " a", "a "
TripNames == EnumNames \cup { <<>>, <<32, 97>>, <<97, 32>> }

TripTables ==
  UNION { [1..k -> { EnumEntry(n, v) : n \in TripNames, v \in EnumValues }]
          : k \in 0..MaxEntries }

\* '1', '.', 'e', '-', space and 'z'
FloatAlphabet == {49, 46, 101, 45, 32, 122}

\* nan, NaN, -nan, inf, -inf, INF, infinity, and the near misses nanz, in
FloatWords ==
  { <<110, 97, 110>>, <<78, 97, 78>>, <<45, 110, 97, 110>>,
    <<105, 110, 102>>, <<45, 105, 110, 102>>, <<73, 78, 70>>,
    <<105, 110, 102, 105, 110, 105, 116, 121>>,
    <<110, 97, 110, 122>>, <<105, 110>> }

FloatInputs ==
  Texts(FloatAlphabet, MaxFloatLen)
    \cup Padded(Texts(FloatAlphabet, 2))
    \cup FloatWords

\* the values to_string(Float) is given: both signs of every class
FloatValues ==
  { FloatValue(n, m) : n \in BOOLEAN,
                       m \in {"zero", "subnormal", "normal", "inf", "nan"} }

\* what the primitive reports on the text std::to_chars wrote for f: the
\* value f itself, with ERANGE possible only below the smallest normal number
RoundTripOutcomes(f) ==
  { h \in strto_outcomes(to_chars_float(f)) :
      /\ h.value = f.magnitude
      /\ h.erange => f.magnitude = "subnormal" }

\* bytes after the view: nothing (the terminator), a digit, or another byte
Tails == Texts({49, 122}, MaxTailLen)

\* the six whitespace characters and 'a'
TrimAlphabet == Whitespace \cup {97}

TrimInputs == Texts(TrimAlphabet, MaxTrimLen)

\* '-', 'x' and the digits 0 1 2 5 8 9
LoopAlphabet == {45, 120, 48, 49, 50, 53, 56, 57}

LoopInputs == Texts(LoopAlphabet, MaxIntLen)

\* the texts the threads convert: "1", "1z", "z" and the empty text
ThreadInputs == { <<49>>, <<49, 122>>, <<122>>, <<>> }

\* one errno shared by all threads
errno_cell_shared(t) == 1

\* errno designates an object of thread storage duration: thread t uses its
\* own cell
errno_cell(t) == t

\* parse_integer not running
NoLoop ==
  [pc |-> "idle", in |-> <<>>, T |-> NoType, negative |-> FALSE, i |-> 0,
   value |-> 0, has_digit |-> FALSE, raw |-> 0, examined |-> {}, result |-> Ok(0)]

Threads == 1..NThreads

\* a thread between two calls
NoCall == [pc |-> "idle", input |-> <<>>, h |-> [erange |-> FALSE, value |-> "zero"],
           result |-> Ok(0)]

\* no thread is in a call; every errno cell holds 0
NoThreads == [calls |-> [t \in Threads |-> NoCall], errno |-> [c \in Threads |-> FALSE]]

(***************************************************************************)
(* expected<T, E>, the fallback class (Expected.hpp 117-267)               *)
(*                                                                         *)
(* An object is its has_ flag and the union of val_ and err_; the model    *)
(* keeps, for each member, whether its lifetime has begun and not ended.   *)
(* T stands for a type whose copy constructor may throw (to_string returns *)
(* expected<std::string, ConversionError>); E is trivially copyable.       *)
(***************************************************************************)
NSlots == 2
Slots == 1..NSlots
ExpectedValues == {1, 2}
MovedFrom == 0

NoObject == [made |-> FALSE, has_ |-> FALSE, val_live |-> FALSE,
             err_live |-> FALSE, val_ |-> 0, err_ |-> 0]

NoObjects == [slot |-> [x \in Slots |-> NoObject],
              last |-> [kind |-> "none", target |-> 1, source |-> 1,
                        before |-> NoObject],
              thrown |-> FALSE,
              faults |-> {}]

\* expected(const T &) and expected(T &&)
expected_value(v) == [made |-> TRUE, has_ |-> TRUE, val_live |-> TRUE,
                      err_live |-> FALSE, val_ |-> v, err_ |-> 0]

\* expected(const unexpected<E> &) and expected(unexpected<E> &&)
expected_unexpected(e) == [made |-> TRUE, has_ |-> FALSE, val_live |-> FALSE,
                           err_live |-> TRUE, val_ |-> 0, err_ |-> e]

\* expected(const expected &o): has_(o.has_) and the matching member
expected_copy(o) ==
  IF o.has_ THEN expected_value(o.val_) ELSE expected_unexpected(o.err_)

\* what a move leaves in the source: the same member, its value given away
\* (a std::string is left valid and unspecified, an int or a
\* ConversionError is left as it was)
expected_moved_from(o, left) ==
  IF o.has_ THEN [o EXCEPT !.val_ = left] ELSE o

\* ~expected(): ends the lifetime of the member has_ names
expected_destructor(o) ==
  IF o.has_ THEN [o EXCEPT !.val_live = FALSE]
            ELSE [o EXCEPT !.err_live = FALSE]

\* the member has_ names is not live: the destructor, or a copy, touches a
\* member whose lifetime has not begun or has ended
expected_dead_member(o) ==
  IF o.has_ THEN ~o.val_live ELSE ~o.err_live

\* operator=(const expected &o) and operator=(expected &&o) past the
\* this == &o test: destroy, take o.has_, construct the matching member; a
\* constructor that throws leaves the flag set and no member
expected_assign(self, o, throws) ==
  IF throws
    THEN [expected_destructor(self) EXCEPT !.has_ = o.has_]
    ELSE expected_copy(o)

\* the copy constructor of T may throw, the one of E may not
MayThrow(o) == IF o.has_ THEN BOOLEAN ELSE {FALSE}

(***************************************************************************)
(* The loops of trim, to_bool, to_int, to_enum and to_string(Enum), run    *)
(* one pass at a time.  A call in progress is its arguments, the two ends  *)
(* lo and hi of the view trim has reached so far (the view is              *)
(* in[lo + 1 .. hi]), the indices k and j of the loop it is in, and two    *)
(* counts: reads[p], the passes of parse_integer's loop that read          *)
(* character p of the trimmed input, and compared, the characters of the   *)
(* trimmed input that to_enum's inner loop compared.                       *)
(***************************************************************************)
MaxScanLen == 3

NoScan ==
  [pc |-> "idle", call |-> "none", in |-> <<>>, lo |-> 0, hi |-> 0,
   tbl |-> <<>>, ci |-> FALSE, v |-> 0, T |-> NoType, k |-> 0, j |-> 0,
   negative |-> FALSE, value |-> 0, has_digit |-> FALSE, reads |-> <<>>,
   compared |-> 0, result |-> Err("None", <<>>, 0)]

\* space and 'a'
ScanTrimInputs == Texts({32, 97}, MaxScanLen)

\* space, '1', 'o', 'n', 'N' and 'f': "1", "on", "no", "off" and near misses
ScanBoolInputs == Texts({32, 49, 111, 110, 78, 102}, MaxScanLen)

\* space, '-', 'x', '1' and '9'
ScanIntInputs == Texts({32, 45, 120, 49, 57}, MaxScanLen)

\* space, 'a' and 'B'
ScanEnumInputs == Texts({32, 97, 66}, MaxScanLen)

\* tables of the names "a" and "ab"
ScanTables ==
  UNION { [1..k -> { EnumEntry(n, v) : n \in {<<97>>, <<97, 98>>},
                                       v \in EnumValues }]
          : k \in 0..MaxEntries }

\* a call that has just been entered, before its first loop
ScanEnter(call, in, tbl, ci, v, T) ==
  [NoScan EXCEPT !.pc = IF call = "to_string" THEN "names" ELSE "ltrim",
                 !.call = call, !.in = in, !.hi = Len(in), !.tbl = tbl,
                 !.ci = ci, !.v = v, !.T = T]

\* the view trim has reached
ScanView(sc) == SubSeq(sc.in, sc.lo + 1, sc.hi)

\* the tests of to_bool in the order of its two ifs: s == "1", the three
\* truthy keywords, s == "0", the three falsy keywords
BoolTests ==
  << [word |-> <<49>>,   exact |-> TRUE,  value |-> TRUE],
     [word |-> KW_true,  exact |-> FALSE, value |-> TRUE],
     [word |-> KW_yes,   exact |-> FALSE, value |-> TRUE],
     [word |-> KW_on,    exact |-> FALSE, value |-> TRUE],
     [word |-> <<48>>,   exact |-> TRUE,  value |-> FALSE],
     [word |-> KW_false, exact |-> FALSE, value |-> FALSE],
     [word |-> KW_no,    exact |-> FALSE, value |-> FALSE],
     [word |-> KW_off,   exact |-> FALSE, value |-> FALSE] >>

\* ltrim: while (i < s.size() && is_space(s[i])) ++i;
ltrim_pass(sc) ==
  IF sc.lo < Len(sc.in) /\ is_space(sc.in[sc.lo + 1])
  THEN [sc EXCEPT !.lo = @ + 1]
  ELSE [sc EXCEPT !.pc = "rtrim"]

\* the code between the return of trim and the next loop of the caller
after_trim(sc) ==
  LET s == ScanView(sc) IN
  IF sc.call = "trim"
  THEN [sc EXCEPT !.pc = "done", !.result = Ok(s)]
  ELSE IF Len(s) = 0
  THEN [sc EXCEPT !.pc = "done", !.result = Err("EmptyInput", sc.in, 0)]
  ELSE IF sc.call = "to_bool"
  THEN [sc EXCEPT !.pc = "keywords"]
  ELSE IF sc.call = "to_enum"
  THEN [sc EXCEPT !.pc = "entries"]
  ELSE \* to_int: parse_integer up to its loop
       IF s[1] = 43 \/ s[1] = 45
       THEN IF Len(s) = 1
            THEN [sc EXCEPT !.pc = "done",
                            !.result = Err("InvalidCharacter", sc.in, 0)]
            ELSE [sc EXCEPT !.pc = "digits", !.negative = (s[1] = 45),
                            !.j = 1, !.reads = [p \in 1..Len(s) |-> 0]]
       ELSE [sc EXCEPT !.pc = "digits", !.reads = [p \in 1..Len(s) |-> 0]]

\* rtrim forgetting --n
rtrim_pass_stuck(sc) ==
  IF sc.hi > sc.lo /\ is_space(sc.in[sc.hi])
  THEN sc
  ELSE after_trim(sc)

\* rtrim: while (n > 0 && is_space(s[n - 1])) --n; and what follows it
rtrim_pass(sc) ==
  IF sc.hi > sc.lo /\ is_space(sc.in[sc.hi])
  THEN [sc EXCEPT !.hi = @ - 1]
  ELSE after_trim(sc)

\* to_bool: test k at character j; iequals' size test comes before its loop
keywords_pass(sc) ==
  LET s == ScanView(sc) IN
  IF sc.k = Len(BoolTests)
  THEN [sc EXCEPT !.pc = "done", !.result = Err("InvalidBoolean", sc.in, 0)]
  ELSE LET t == BoolTests[sc.k + 1] IN
       IF t.exact
       THEN IF s = t.word
            THEN [sc EXCEPT !.pc = "done", !.result = Ok(t.value)]
            ELSE [sc EXCEPT !.k = @ + 1]
       ELSE IF Len(s) # Len(t.word)
       THEN [sc EXCEPT !.k = @ + 1, !.j = 0]
       ELSE IF sc.j < Len(s)
       THEN IF to_lower(s[sc.j + 1]) # to_lower(t.word[sc.j + 1])
            THEN [sc EXCEPT !.k = @ + 1, !.j = 0]
            ELSE [sc EXCEPT !.j = @ + 1]
       ELSE [sc EXCEPT !.pc = "done", !.result = Ok(t.value)]

\* parse_integer: one pass of its loop, or the code after it; to_int puts
\* the original input into the error
digits_pass(sc) ==
  LET s == ScanView(sc) IN
  IF sc.j < Len(s)
  THEN LET r == parse_integer_iter(s, sc.T, sc.negative, sc.j, sc.value) IN
       IF r.error
       THEN [sc EXCEPT !.pc = "done", !.reads[sc.j + 1] = @ + 1,
                       !.result = [r.result EXCEPT !.input = sc.in]]
       ELSE [sc EXCEPT !.j = @ + 1, !.reads[sc.j + 1] = @ + 1,
                       !.value = r.result.value, !.has_digit = TRUE]
  ELSE [sc EXCEPT !.pc = "done",
                  !.result = IF ~sc.has_digit
                             THEN Err("InvalidCharacter", sc.in, 0)
                             ELSE Ok(sc.value)]

\* to_enum: the head of the outer loop and the size test of entry k
entries_pass(sc) ==
  LET s == ScanView(sc) IN
  IF sc.k < Len(sc.tbl)
  THEN IF Len(sc.tbl[sc.k + 1].name) # Len(s)
       THEN [sc EXCEPT !.k = @ + 1]
       ELSE [sc EXCEPT !.pc = "chars", !.j = 0]
  ELSE [sc EXCEPT !.pc = "done",
                  !.result = Err("UnknownEnumValue", sc.in, 0)]

\* to_enum: one pass of the inner loop on entry k, or the test of match
chars_pass(sc) ==
  LET s    == ScanView(sc)
      name == sc.tbl[sc.k + 1].name
  IN
  IF sc.j < Len(s)
  THEN LET a == IF sc.ci THEN to_lower(s[sc.j + 1]) ELSE s[sc.j + 1]
           b == IF sc.ci THEN to_lower(name[sc.j + 1]) ELSE name[sc.j + 1]
       IN IF a # b
          THEN [sc EXCEPT !.pc = "entries", !.k = @ + 1, !.j = 0,
                          !.compared = @ + 1]
          ELSE [sc EXCEPT !.j = @ + 1, !.compared = @ + 1]
  ELSE [sc EXCEPT !.pc = "done", !.result = Ok(sc.tbl[sc.k + 1].value)]

\* to_string(Enum): one pass of its loop, or the return after it
names_pass(sc) ==
  IF sc.k < Len(sc.tbl)
  THEN IF sc.tbl[sc.k + 1].value = sc.v
       THEN [sc EXCEPT !.pc = "done", !.result = Ok(sc.tbl[sc.k + 1].name)]
       ELSE [sc EXCEPT !.k = @ + 1]
  ELSE [sc EXCEPT !.pc = "done",
                  !.result = Err("UnknownEnumValue", <<>>, 0)]

(***************************************************************************)
(* The calls                                                               *)
(***************************************************************************)
Init ==
  /\ op = "idle"
  /\ input = <<>>
  /\ tail = <<>>
  /\ target = NoType
  /\ entries = <<>>
  /\ case_insensitive = TRUE
  /\ value = 0
  /\ source = "caller"
  /\ host = NoOutcome
  /\ result = Ok(0)
  /\ prior = Ok(0)
  /\ loop = NoLoop
  /\ threads = NoThreads
  /\ objects = NoObjects
  /\ scan = NoScan

\* to_int<Int>(input)
ToInt ==
  /\ op = "idle"
  /\ \E s \in IntInputs, T \in IntTypes :
       /\ op' = "to_int"
       /\ input' = s
       /\ target' = T
       /\ result' = to_int(s, T)
  /\ UNCHANGED <<tail, entries, case_insensitive, value, source, host,
               prior, loop, threads,
                 objects, scan>>

\* to_bool(input)
ToBool ==
  /\ op = "idle"
  /\ \E s \in BoolInputs :
       /\ op' = "to_bool"
       /\ input' = s
       /\ result' = to_bool(s)
  /\ UNCHANGED <<tail, target, entries, case_insensitive, value, source, host,
               prior, loop, threads,
                 objects, scan>>

\* to_enum(input, entries, count, case_insensitive)
ToEnum ==
  /\ op = "idle"
  /\ \E s \in EnumInputs, tbl \in Tables, ci \in BOOLEAN :
       /\ op' = "to_enum"
       /\ input' = s
       /\ entries' = tbl
       /\ case_insensitive' = ci
       /\ result' = to_enum(s, tbl, ci)
  /\ UNCHANGED <<tail, target, value, source, host,
               prior, loop, threads,
                 objects, scan>>

\* to_float<Float>(input), the view lying in a buffer that continues with
\* `tail`, the host primitive reporting h
ToFloat ==
  /\ op = "idle"
  /\ \E s \in FloatInputs, t \in Tails :
       \E h \in strto_outcomes(Buffer(s, t)) :
         /\ op' = "to_float"
         /\ input' = s
         /\ tail' = t
         /\ host' = IF Len(trim(s)) = 0 THEN NoOutcome ELSE strto(Buffer(s, t), h)
         /\ result' = to_float(s, t, h)
  /\ UNCHANGED <<target, entries, case_insensitive, value, source,
               prior, loop, threads,
                 objects, scan>>

\* to_string(Float value)
ToStringFloat ==
  /\ op = "idle"
  /\ \E f \in FloatValues :
       /\ op' = "to_string_float"
       /\ value' = f
       /\ result' = to_string_float(f)
  /\ UNCHANGED <<input, tail, target, entries, case_insensitive, source, host,
               prior, loop, threads,
                 objects, scan>>

\* to_float<Float>(to_string(value).value()): the std::string ends with
\* its terminator, so nothing follows the view
ToFloatOfString ==
  /\ op = "to_string_float"
  /\ result.ok
  /\ \E h \in RoundTripOutcomes(value) :
       /\ op' = "to_float"
       /\ input' = result.value
       /\ source' = "to_string"
       /\ host' = strto(Buffer(result.value, <<>>), h)
       /\ result' = to_float(result.value, <<>>, h)
  /\ UNCHANGED <<tail, target, entries, case_insensitive, value,
               prior, loop, threads,
                 objects, scan>>

\* to_string<Int>(value)
ToStringInt ==
  /\ op = "idle"
  /\ \E T \in IntTypes :
       \E n \in Limits_min(T)..Limits_max(T) :
         /\ op' = "to_string_int"
         /\ target' = T
         /\ value' = n
         /\ result' = to_string_int(n)
  /\ UNCHANGED <<input, tail, entries, case_insensitive, source, host,
               prior, loop, threads,
                 objects, scan>>

\* to_int<Int>(to_string(value).value())
ToIntOfString ==
  /\ op = "to_string_int"
  /\ result.ok
  /\ op' = "to_int"
  /\ input' = result.value
  /\ source' = "to_string"
  /\ result' = to_int(result.value, target)
  /\ UNCHANGED <<tail, target, entries, case_insensitive, value, host,
               prior, loop, threads,
                 objects, scan>>

\* to_string(value, entries, count)
ToStringEnum ==
  /\ op = "idle"
  /\ \E v \in EnumValues, tbl \in Tables :
       /\ op' = "to_string_enum"
       /\ value' = v
       /\ entries' = tbl
       /\ result' = to_string_enum(v, tbl)
  /\ UNCHANGED <<input, tail, target, case_insensitive, source, host,
               prior, loop, threads,
                 objects, scan>>

\* to_string(value, entries, count) on a table whose names may be empty or
\* carry whitespace
ToStringEnumNamed ==
  /\ op = "idle"
  /\ \E v \in EnumValues, tbl \in TripTables :
       /\ op' = "to_string_enum"
       /\ value' = v
       /\ entries' = tbl
       /\ result' = to_string_enum(v, tbl)
  /\ UNCHANGED <<input, tail, target, case_insensitive, source, host,
                 prior, loop, threads, objects, scan>>

\* to_enum(to_string(v, table).value(), table, mode)
ToEnumOfString ==
  /\ op = "to_string_enum"
  /\ result.ok
  /\ \E ci \in BOOLEAN :
       /\ op' = "to_enum"
       /\ input' = result.value
       /\ case_insensitive' = ci
       /\ source' = "to_string"
       /\ result' = to_enum(result.value, entries, ci)
  /\ UNCHANGED <<tail, target, entries, value, host,
                 prior, loop, threads, objects, scan>>

\* detail::trim(s)
Trim ==
  /\ op = "idle"
  /\ \E s \in TrimInputs :
       /\ op' = "trim"
       /\ input' = s
       /\ result' = Ok(trim(s))
  /\ UNCHANGED <<tail, target, entries, case_insensitive, value, source, host,
               prior, loop, threads,
                 objects, scan>>

\* detail::trim(detail::trim(s))
TrimAgain ==
  /\ op = "trim"
  /\ source = "caller"
  /\ op' = "trim"
  /\ input' = result.value
  /\ source' = "trim"
  /\ result' = Ok(trim(result.value))
  /\ UNCHANGED <<tail, target, entries, case_insensitive, value, host,
               prior, loop, threads,
                 objects, scan>>

\* the same to_int, to_bool or to_enum call on the text with whitespace
\* added before and after it
Repad ==
  /\ op \in {"to_int", "to_bool", "to_enum"}
  /\ source = "caller"
  /\ Len(input) <= MaxRepadLen
  /\ \E l \in Pads, r \in Pads :
       LET s == l \o input \o r IN
       /\ input' = s
       /\ result' = CASE op = "to_int" -> to_int(s, target)
                      [] op = "to_bool" -> to_bool(s)
                      [] OTHER -> to_enum(s, entries, case_insensitive)
  /\ prior' = result
  /\ source' = "padded"
  /\ UNCHANGED <<op, tail, target, entries, case_insensitive, value, host,
                 loop, threads,
                 objects, scan>>

\* the same to_float call on the text with whitespace added before and after
\* it, in a buffer that continues with the same bytes; the primitive reports
\* the same errno and value when it consumes the same characters
RepadFloat ==
  /\ op = "to_float"
  /\ source = "caller"
  /\ Len(input) <= MaxRepadLen
  /\ \E l \in Pads, r \in Pads :
       LET s == l \o input \o r IN
       \E h \in strto_outcomes(Buffer(s, tail)) :
         /\ strto_end(Buffer(s, tail)) = host.consumed =>
              h = [erange |-> host.erange, value |-> host.value.magnitude]
         /\ input' = s
         /\ host' = IF Len(trim(s)) = 0 THEN NoOutcome ELSE strto(Buffer(s, tail), h)
         /\ result' = to_float(s, tail, h)
  /\ prior' = result
  /\ source' = "padded"
  /\ UNCHANGED <<op, tail, target, entries, case_insensitive, value,
                 loop, threads,
                 objects, scan>>

\* the same to_float call on the same view lying in another buffer: the
\* bytes after the view are different; the primitive reports the same errno
\* and value when it consumes the same characters
Rebuffer ==
  /\ op = "to_float"
  /\ source = "caller"
  /\ \E t \in Tails :
       \E h \in strto_outcomes(Buffer(input, t)) :
         /\ strto_end(Buffer(input, t)) = host.consumed =>
              h = [erange |-> host.erange, value |-> host.value.magnitude]
         /\ tail' = t
         /\ host' = IF Len(trim(input)) = 0 THEN NoOutcome
                    ELSE strto(Buffer(input, t), h)
         /\ result' = to_float(input, t, h)
  /\ prior' = result
  /\ source' = "rebuffered"
  /\ UNCHANGED <<op, input, target, entries, case_insensitive, value,
                 loop, threads,
                 objects, scan>>

\* the caller drops the result; the next call starts from scratch
Return ==
  /\ op # "idle"
  /\ op' = "idle"
  /\ input' = <<>>
  /\ tail' = <<>>
  /\ target' = NoType
  /\ entries' = <<>>
  /\ case_insensitive' = TRUE
  /\ value' = 0
  /\ source' = "caller"
  /\ host' = NoOutcome
  /\ result' = Ok(0)
  /\ prior' = Ok(0)
  /\ UNCHANGED <<loop, threads,
                 objects, scan>>

\* thread t enters to_float: trims, and returns EmptyInput on a blank text
ThreadCall(t) ==
  /\ threads.calls[t].pc = "idle"
  /\ \E s \in ThreadInputs :
       threads' = [threads EXCEPT !.calls[t] =
                     IF Len(trim(s)) = 0
                     THEN [NoCall EXCEPT !.pc = "done", !.input = s,
                                         !.result = to_float(s, <<>>, NoCall.h)]
                     ELSE [NoCall EXCEPT !.pc = "clear", !.input = s]]
  /\ UNCHANGED <<op, input, tail, target, entries, case_insensitive, value,
                 source, host, result, prior, loop,
                 objects, scan>>

\* errno = 0
ThreadClearErrno(t) ==
  /\ threads.calls[t].pc = "clear"
  /\ threads' = [threads EXCEPT !.errno[errno_cell(t)] = FALSE,
                                !.calls[t].pc = "strto"]
  /\ UNCHANGED <<op, input, tail, target, entries, case_insensitive, value,
                 source, host, result, prior, loop,
                 objects, scan>>

\* the primitive runs: it sets errno to ERANGE on a range error and leaves
\* it alone otherwise
ThreadStrto(t) ==
  /\ threads.calls[t].pc = "strto"
  /\ \E h \in strto_outcomes(Buffer(threads.calls[t].input, <<>>)) :
       threads' = [threads EXCEPT
                     !.errno[errno_cell(t)] = IF h.erange THEN TRUE ELSE @,
                     !.calls[t].h = h,
                     !.calls[t].pc = "read"]
  /\ UNCHANGED <<op, input, tail, target, entries, case_insensitive, value,
                 source, host, result, prior, loop,
                 objects, scan>>

\* the checks after the primitive, errno == ERANGE read from the cell
ThreadReadErrno(t) ==
  /\ threads.calls[t].pc = "read"
  /\ threads' = [threads EXCEPT
                   !.calls[t].result =
                     to_float(threads.calls[t].input, <<>>,
                              [erange |-> threads.errno[errno_cell(t)],
                               value  |-> threads.calls[t].h.value]),
                   !.calls[t].pc = "done"]
  /\ UNCHANGED <<op, input, tail, target, entries, case_insensitive, value,
                 source, host, result, prior, loop,
                 objects, scan>>

\* thread t drops its result
ThreadReturn(t) ==
  /\ threads.calls[t].pc = "done"
  /\ threads' = [threads EXCEPT !.calls[t] = NoCall]
  /\ UNCHANGED <<op, input, tail, target, entries, case_insensitive, value,
                 source, host, result, prior, loop,
                 objects, scan>>

\* parse_integer<Int>(input) up to its loop: the empty check and the sign
ParseIntegerBegin ==
  /\ loop.pc = "idle"
  /\ \E s \in LoopInputs, T \in IntTypes :
       LET signed_ == Len(s) > 0 /\ (s[1] = 43 \/ s[1] = 45) IN
       loop' =
         IF Len(s) = 0
         THEN [NoLoop EXCEPT !.pc = "done", !.in = s, !.T = T,
                             !.result = Err("EmptyInput", s, 0)]
         ELSE IF signed_ /\ Len(s) = 1
              THEN [NoLoop EXCEPT !.pc = "done", !.in = s, !.T = T,
                                  !.negative = (s[1] = 45), !.i = 1,
                                  !.examined = {0},
                                  !.result = Err("InvalidCharacter", s, 0)]
              ELSE [NoLoop EXCEPT !.pc = "digits", !.in = s, !.T = T,
                                  !.negative = (signed_ /\ s[1] = 45),
                                  !.i = IF signed_ THEN 1 ELSE 0,
                                  !.examined = {0}]
  /\ UNCHANGED <<op, input, tail, target, entries, case_insensitive, value,
                 source, host, result, prior, threads,
                 objects, scan>>

\* one pass through the body of the loop
ParseIntegerStep ==
  /\ loop.pc = "digits"
  /\ loop.i < Len(loop.in)
  /\ LET r == parse_integer_iter(loop.in, loop.T, loop.negative, loop.i, loop.value) IN
     loop' =
       IF r.error
       THEN [loop EXCEPT !.pc = "done", !.result = r.result,
                         !.has_digit = is_digit(loop.in[loop.i + 1]),
                         !.examined = @ \cup {loop.i}]
       ELSE [loop EXCEPT !.value = r.result.value, !.raw = r.raw,
                         !.has_digit = TRUE, !.i = @ + 1,
                         !.examined = @ \cup {loop.i}]
  /\ UNCHANGED <<op, input, tail, target, entries, case_insensitive, value,
                 source, host, result, prior, threads,
                 objects, scan>>

\* the loop ends at input.size(): the has_digit check and return value
ParseIntegerEnd ==
  /\ loop.pc = "digits"
  /\ loop.i = Len(loop.in)
  /\ loop' = [loop EXCEPT !.pc = "done",
                          !.result = IF ~loop.has_digit
                                     THEN Err("InvalidCharacter", loop.in, 0)
                                     ELSE Ok(loop.value)]
  /\ UNCHANGED <<op, input, tail, target, entries, case_insensitive, value,
                 source, host, result, prior, threads,
                 objects, scan>>

\* the caller drops parse_integer's result
ParseIntegerReturn ==
  /\ loop.pc = "done"
  /\ loop' = NoLoop
  /\ UNCHANGED <<op, input, tail, target, entries, case_insensitive, value,
                 source, host, result, prior, threads,
                 objects, scan>>

Next ==
  \/ ToInt
  \/ ToBool
  \/ ToEnum
  \/ ToFloat
  \/ ToStringInt
  \/ ToIntOfString
  \/ ToStringEnum
  \/ ToStringFloat
  \/ ToFloatOfString
  \/ Return

Spec == Init /\ [][Next]_vars

\* the floating-point calls alone
NextFloat ==
  \/ ToFloat
  \/ ToStringFloat
  \/ ToFloatOfString
  \/ Return

SpecFloat == Init /\ [][NextFloat]_vars

\* detail::trim alone
NextTrim ==
  \/ Trim
  \/ TrimAgain
  \/ Return

SpecTrim == Init /\ [][NextTrim]_vars

\* each parser called twice, the second time with whitespace added
NextPad ==
  \/ ToInt
  \/ ToBool
  \/ ToEnum
  \/ ToFloat
  \/ Repad
  \/ RepadFloat
  \/ Return

SpecPad == Init /\ [][NextPad]_vars

\* to_float called from several threads, their steps interleaved
NextThreads ==
  \E t \in Threads :
    \/ ThreadCall(t)
    \/ ThreadClearErrno(t)
    \/ ThreadStrto(t)
    \/ ThreadReadErrno(t)
    \/ ThreadReturn(t)

SpecThreads == Init /\ [][NextThreads]_vars

\* parse_integer run one pass of its loop at a time
NextLoop ==
  \/ ParseIntegerBegin
  \/ ParseIntegerStep
  \/ ParseIntegerEnd
  \/ ParseIntegerReturn

SpecLoop == Init /\ [][NextLoop]_vars

\* to_float called twice on one view in two buffers
NextBuffer ==
  \/ ToFloat
  \/ Rebuffer
  \/ Return

SpecBuffer == Init /\ [][NextBuffer]_vars

\* an enum value written by to_string and read back by to_enum
NextEnumTrip ==
  \/ ToStringEnumNamed
  \/ ToEnumOfString
  \/ Return

SpecEnumTrip == Init /\ [][NextEnumTrip]_vars

(***************************************************************************)
(* The operations of the fallback expected<T, E>                           *)
(***************************************************************************)
\* expected(const T &), expected(T &&): a new object that holds a value
ExpectedFromValue ==
  \E x \in Slots, v \in ExpectedValues :
    /\ ~objects.slot[x].made
    /\ objects' = [objects EXCEPT
         !.slot[x] = expected_value(v),
         !.last = [kind |-> "value", target |-> x, source |-> x,
                   before |-> NoObject]]
    /\ UNCHANGED <<op, input, tail, target, entries, case_insensitive, value,
                   source, host, result, prior, loop, threads, scan>>

\* expected(const unexpected<E> &), expected(unexpected<E> &&)
ExpectedFromUnexpected ==
  \E x \in Slots, e \in ExpectedValues :
    /\ ~objects.slot[x].made
    /\ objects' = [objects EXCEPT
         !.slot[x] = expected_unexpected(e),
         !.last = [kind |-> "unexpected", target |-> x, source |-> x,
                   before |-> NoObject]]
    /\ UNCHANGED <<op, input, tail, target, entries, case_insensitive, value,
                   source, host, result, prior, loop, threads, scan>>

\* expected(const expected &o): when the constructor of the member throws
\* there is no new object
ExpectedCopy ==
  \E x \in Slots, y \in Slots :
    LET o == objects.slot[y] IN
    /\ ~objects.slot[x].made
    /\ o.made
    /\ \E throws \in MayThrow(o) :
         objects' = [objects EXCEPT
           !.slot[x] = IF throws THEN NoObject ELSE expected_copy(o),
           !.last = [kind |-> IF throws THEN "none" ELSE "copy",
                     target |-> x, source |-> y, before |-> o],
           !.thrown = @ \/ throws,
           !.faults = IF expected_dead_member(o)
                        THEN @ \cup {"dead member read"} ELSE @]
    /\ UNCHANGED <<op, input, tail, target, entries, case_insensitive, value,
                   source, host, result, prior, loop, threads, scan>>

\* expected(expected &&o)
ExpectedMove ==
  \E x \in Slots, y \in Slots :
    LET o == objects.slot[y] IN
    /\ ~objects.slot[x].made
    /\ o.made
    /\ \E left \in {o.val_, MovedFrom} :
         objects' = [objects EXCEPT
           !.slot[x] = expected_copy(o),
           !.slot[y] = expected_moved_from(o, left),
           !.last = [kind |-> "move", target |-> x, source |-> y,
                     before |-> o],
           !.faults = IF expected_dead_member(o)
                        THEN @ \cup {"dead member read"} ELSE @]
    /\ UNCHANGED <<op, input, tail, target, entries, case_insensitive, value,
                   source, host, result, prior, loop, threads, scan>>

\* operator=(const expected &o), self-assignment included
ExpectedCopyAssign ==
  \E x \in Slots, y \in Slots :
    LET self == objects.slot[x]
        o == objects.slot[y] IN
    /\ self.made
    /\ o.made
    /\ IF x = y
         THEN objects' = [objects EXCEPT
                !.last = [kind |-> "copy", target |-> x, source |-> y,
                          before |-> o]]
         ELSE \E throws \in MayThrow(o) :
                objects' = [objects EXCEPT
                  !.slot[x] = expected_assign(self, o, throws),
                  !.last = [kind |-> "copy", target |-> x, source |-> y,
                            before |-> o],
                  !.thrown = @ \/ throws,
                  !.faults =
                    @ \cup (IF expected_dead_member(self)
                              THEN {"dead member destroyed"} ELSE {})
                      \cup (IF expected_dead_member(o)
                              THEN {"dead member read"} ELSE {})]
    /\ UNCHANGED <<op, input, tail, target, entries, case_insensitive, value,
                   source, host, result, prior, loop, threads, scan>>

\* operator=(expected &&o), self-assignment included
ExpectedMoveAssign ==
  \E x \in Slots, y \in Slots :
    LET self == objects.slot[x]
        o == objects.slot[y] IN
    /\ self.made
    /\ o.made
    /\ IF x = y
         THEN objects' = [objects EXCEPT
                !.last = [kind |-> "move", target |-> x, source |-> y,
                          before |-> o]]
         ELSE \E left \in {o.val_, MovedFrom} :
                objects' = [objects EXCEPT
                  !.slot[x] = expected_assign(self, o, FALSE),
                  !.slot[y] = expected_moved_from(o, left),
                  !.last = [kind |-> "move", target |-> x, source |-> y,
                            before |-> o],
                  !.faults =
                    @ \cup (IF expected_dead_member(self)
                              THEN {"dead member destroyed"} ELSE {})
                      \cup (IF expected_dead_member(o)
                              THEN {"dead member read"} ELSE {})]
    /\ UNCHANGED <<op, input, tail, target, entries, case_insensitive, value,
                   source, host, result, prior, loop, threads, scan>>

\* ~expected() at the end of the object's life
ExpectedDestroy ==
  \E x \in Slots :
    LET self == objects.slot[x] IN
    /\ self.made
    /\ objects' = [objects EXCEPT
         !.slot[x] = NoObject,
         !.last = [kind |-> "destroy", target |-> x, source |-> x,
                   before |-> self],
         !.faults =
           @ \cup (IF expected_dead_member(self)
                     THEN {"dead member destroyed"} ELSE {})
             \cup (IF expected_destructor(self).val_live
                        \/ expected_destructor(self).err_live
                     THEN {"live member not destroyed"} ELSE {})]
    /\ UNCHANGED <<op, input, tail, target, entries, case_insensitive, value,
                   source, host, result, prior, loop, threads, scan>>

NextExpected ==
  \/ ExpectedFromValue
  \/ ExpectedFromUnexpected
  \/ ExpectedCopy
  \/ ExpectedMove
  \/ ExpectedCopyAssign
  \/ ExpectedMoveAssign
  \/ ExpectedDestroy

SpecExpected == Init /\ [][NextExpected]_vars

(***************************************************************************)
(* The loops, one pass at a time                                           *)
(***************************************************************************)
ScanTrim ==
  /\ scan.pc = "idle"
  /\ \E s \in ScanTrimInputs :
       scan' = ScanEnter("trim", s, <<>>, FALSE, 0, NoType)
  /\ UNCHANGED <<op, input, tail, target, entries, case_insensitive, value,
                 source, host, result, prior, loop, threads, objects>>

ScanToBool ==
  /\ scan.pc = "idle"
  /\ \E s \in ScanBoolInputs :
       scan' = ScanEnter("to_bool", s, <<>>, FALSE, 0, NoType)
  /\ UNCHANGED <<op, input, tail, target, entries, case_insensitive, value,
                 source, host, result, prior, loop, threads, objects>>

ScanToInt ==
  /\ scan.pc = "idle"
  /\ \E s \in ScanIntInputs, T \in IntTypes :
       scan' = ScanEnter("to_int", s, <<>>, FALSE, 0, T)
  /\ UNCHANGED <<op, input, tail, target, entries, case_insensitive, value,
                 source, host, result, prior, loop, threads, objects>>

ScanToEnum ==
  /\ scan.pc = "idle"
  /\ \E s \in ScanEnumInputs, tbl \in ScanTables, ci \in BOOLEAN :
       scan' = ScanEnter("to_enum", s, tbl, ci, 0, NoType)
  /\ UNCHANGED <<op, input, tail, target, entries, case_insensitive, value,
                 source, host, result, prior, loop, threads, objects>>

ScanToString ==
  /\ scan.pc = "idle"
  /\ \E v \in EnumValues, tbl \in ScanTables :
       scan' = ScanEnter("to_string", <<>>, tbl, FALSE, v, NoType)
  /\ UNCHANGED <<op, input, tail, target, entries, case_insensitive, value,
                 source, host, result, prior, loop, threads, objects>>

ScanLtrim ==
  /\ scan.pc = "ltrim"
  /\ scan' = ltrim_pass(scan)
  /\ UNCHANGED <<op, input, tail, target, entries, case_insensitive, value,
                 source, host, result, prior, loop, threads, objects>>

ScanRtrim ==
  /\ scan.pc = "rtrim"
  /\ scan' = rtrim_pass(scan)
  /\ UNCHANGED <<op, input, tail, target, entries, case_insensitive, value,
                 source, host, result, prior, loop, threads, objects>>

ScanKeywords ==
  /\ scan.pc = "keywords"
  /\ scan' = keywords_pass(scan)
  /\ UNCHANGED <<op, input, tail, target, entries, case_insensitive, value,
                 source, host, result, prior, loop, threads, objects>>

ScanDigits ==
  /\ scan.pc = "digits"
  /\ scan' = digits_pass(scan)
  /\ UNCHANGED <<op, input, tail, target, entries, case_insensitive, value,
                 source, host, result, prior, loop, threads, objects>>

ScanEntries ==
  /\ scan.pc = "entries"
  /\ scan' = entries_pass(scan)
  /\ UNCHANGED <<op, input, tail, target, entries, case_insensitive, value,
                 source, host, result, prior, loop, threads, objects>>

ScanChars ==
  /\ scan.pc = "chars"
  /\ scan' = chars_pass(scan)
  /\ UNCHANGED <<op, input, tail, target, entries, case_insensitive, value,
                 source, host, result, prior, loop, threads, objects>>

ScanNames ==
  /\ scan.pc = "names"
  /\ scan' = names_pass(scan)
  /\ UNCHANGED <<op, input, tail, target, entries, case_insensitive, value,
                 source, host, result, prior, loop, threads, objects>>

\* the caller drops the result
ScanReturn ==
  /\ scan.pc = "done"
  /\ scan' = NoScan
  /\ UNCHANGED <<op, input, tail, target, entries, case_insensitive, value,
                 source, host, result, prior, loop, threads, objects>>

\* a pass of whichever loop the call is in
ScanPass ==
  \/ ScanLtrim
  \/ ScanRtrim
  \/ ScanKeywords
  \/ ScanDigits
  \/ ScanEntries
  \/ ScanChars
  \/ ScanNames

NextScan ==
  \/ ScanTrim
  \/ ScanToBool
  \/ ScanToInt
  \/ ScanToEnum
  \/ ScanToString
  \/ ScanPass
  \/ ScanReturn

\* a call that has been entered keeps running: nothing in the library waits
SpecScan == Init /\ [][NextScan]_vars /\ WF_vars(ScanPass)

(***************************************************************************)
(* Vocabulary of the properties (independent of the code's loops)          *)
(***************************************************************************)
Parsers == {"to_bool", "to_int", "to_float", "to_enum"}

IsBlank(s) == \A i \in 1..Len(s) : s[i] \in Whitespace

\* number of whitespace characters before the first other character
LeadingWs(s) ==
  CHOOSE k \in 0..Len(s) :
    /\ \A i \in 1..k : s[i] \in Whitespace
    /\ k = Len(s) \/ s[k + 1] \notin Whitespace

\* number of whitespace characters after the last other character
TrailingWs(s) ==
  CHOOSE k \in 0..Len(s) :
    /\ \A i \in (Len(s) - k + 1)..Len(s) : s[i] \in Whitespace
    /\ k = Len(s) \/ s[Len(s) - k] \notin Whitespace

\* s without its leading and trailing whitespace
Stripped(s) ==
  IF IsBlank(s) THEN <<>> ELSE SubSeq(s, LeadingWs(s) + 1, Len(s) - TrailingWs(s))

IsSign(c) == c \in {43, 45}

IsDigitChar(c) == c \in 48..57

\* the characters of t after its optional leading sign
Unsigned(t) == IF Len(t) > 0 /\ IsSign(t[1]) THEN Tail(t) ELSE t

\* t is an optional sign followed by one or more decimal digits
IsDecimalToken(t) ==
  /\ Len(Unsigned(t)) > 0
  /\ \A i \in 1..Len(Unsigned(t)) : IsDigitChar(Unsigned(t)[i])

RECURSIVE DecimalValue(_)
\* the number written by the digit string d
DecimalValue(d) ==
  IF Len(d) = 0
  THEN 0
  ELSE 10 * DecimalValue(SubSeq(d, 1, Len(d) - 1)) + (d[Len(d)] - 48)

\* the number written by a decimal token
TokenValue(t) ==
  IF t[1] = 45 THEN -DecimalValue(Unsigned(t)) ELSE DecimalValue(Unsigned(t))

InRange(T, n) == n >= Limits_min(T) /\ n <= Limits_max(T)

Failed(code) == ~result.ok /\ result.code = code

FailedAt(code, pos) == ~result.ok /\ result.code = code /\ result.position = pos

Returned(v) == result.ok /\ result.value = v

(***************************************************************************)
(* C1: when the trimmed input of to_int is an optional sign followed by    *)
(* digits (signed target, or unsigned target without '-'), the call        *)
(* returns the token's value exactly when it lies in [min, max]; otherwise *)
(* it fails with Underflow below min and Overflow above max.               *)
(***************************************************************************)
IntRangeContract ==
  (/\ op = "to_int"
   /\ IsDecimalToken(Stripped(input))
   /\ (target.signed \/ Stripped(input)[1] # 45))
  => LET n == TokenValue(Stripped(input)) IN
     IF InRange(target, n)
     THEN Returned(n)
     ELSE Failed(IF n < 0 THEN "Underflow" ELSE "Overflow")

\* "-129"-like: min - 1 of a signed target is rejected with Underflow
IntRangeWitness ==
  /\ op = "to_int"
  /\ target.signed
  /\ IsDecimalToken(Stripped(input))
  /\ TokenValue(Stripped(input)) = Limits_min(target) - 1
  /\ Failed("Underflow")

(***************************************************************************)
(* C2: to_int<T>(to_string(n).value()) returns n for every n of T.         *)
(***************************************************************************)
IntRoundTrip ==
  (op = "to_int" /\ source = "to_string") => Returned(value)

\* the most negative value of a signed type made the round trip
IntRoundTripWitness ==
  /\ op = "to_int"
  /\ source = "to_string"
  /\ target.signed
  /\ value = Limits_min(target)
  /\ input[1] = 45
  /\ Returned(value)

(***************************************************************************)
(* C3: every parser fails with EmptyInput exactly on the inputs that are   *)
(* empty or made only of space, tab, newline, carriage return, form feed   *)
(* and vertical tab.                                                       *)
(***************************************************************************)
EmptyInputExactlyOnBlank ==
  op \in Parsers => (Failed("EmptyInput") <=> IsBlank(input))

\* a vertical tab and a form feed alone are EmptyInput for to_float
EmptyInputWitness ==
  /\ op = "to_float"
  /\ Len(input) = 2
  /\ input[1] = 11
  /\ IsBlank(input)
  /\ Failed("EmptyInput")

(***************************************************************************)
(* C4: to_bool returns true exactly for 1 / true / yes / on, false exactly *)
(* for 0 / false / no / off (keywords in any letter case, after trimming), *)
(* and fails with InvalidBoolean on every other non-blank input.           *)
(***************************************************************************)
\* s with A-Z replaced by a-z
Folded(s) == [i \in 1..Len(s) |-> IF s[i] \in 65..90 THEN s[i] + 32 ELSE s[i]]

TrueTexts == { <<49>>, <<116, 114, 117, 101>>, <<121, 101, 115>>, <<111, 110>> }

FalseTexts == { <<48>>, <<102, 97, 108, 115, 101>>, <<110, 111>>, <<111, 102, 102>> }

BoolAcceptanceSet ==
  (op = "to_bool" /\ ~IsBlank(input)) =>
    LET t == Stripped(input) IN
    /\ Returned(TRUE) <=> Folded(t) \in TrueTexts
    /\ Returned(FALSE) <=> Folded(t) \in FalseTexts
    /\ Failed("InvalidBoolean") <=> Folded(t) \notin (TrueTexts \cup FalseTexts)

\* a padded "false" written with capitals is accepted as false
BoolAcceptanceWitness ==
  /\ op = "to_bool"
  /\ Len(input) > Len(Stripped(input))
  /\ Stripped(input) # Folded(Stripped(input))
  /\ Len(Stripped(input)) = 5
  /\ Returned(FALSE)

(***************************************************************************)
(* C5 as stated: a non-digit anywhere in the trimmed input (other than a   *)
(* sign at index 0) makes to_int fail with InvalidCharacter at the index   *)
(* of the first such character.                                            *)
(***************************************************************************)
\* indices (from 0) of the characters of t that are neither a digit nor a
\* sign at index 0
NonDigitIndices(t) ==
  { i \in 0..(Len(t) - 1) : ~IsDigitChar(t[i + 1]) /\ ~(i = 0 /\ IsSign(t[1])) }

FirstNonDigit(t) ==
  CHOOSE i \in NonDigitIndices(t) : \A j \in NonDigitIndices(t) : i <= j

NonDigitIsInvalidCharacter ==
  (op = "to_int" /\ NonDigitIndices(Stripped(input)) # {}) =>
    FailedAt("InvalidCharacter", FirstNonDigit(Stripped(input)))

(***************************************************************************)
(* C5 amended: such an input always fails; the failure is InvalidCharacter *)
(* at the first non-digit when the digits before it stay in the target's   *)
(* range (and, for an unsigned target, no digit follows a leading '-');    *)
(* otherwise it is the Overflow or Underflow found at an earlier digit.    *)
(***************************************************************************)
\* the digits of t between the optional sign and index k
DigitsBefore(t, k) == SubSeq(t, (IF IsSign(t[1]) THEN 2 ELSE 1), k)

\* the digits before index k, with t's sign, are accepted by the target
PrefixFits(T, t, k) ==
  IF t[1] = 45
  THEN \/ Len(DigitsBefore(t, k)) = 0
       \/ T.signed /\ InRange(T, -DecimalValue(DigitsBefore(t, k)))
  ELSE InRange(T, DecimalValue(DigitsBefore(t, k)))

NonDigitFailsAtFirstDetection ==
  (op = "to_int" /\ NonDigitIndices(Stripped(input)) # {}) =>
    LET t == Stripped(input)
        k == FirstNonDigit(t)
    IN IF PrefixFits(target, t, k)
       THEN FailedAt("InvalidCharacter", k)
       ELSE /\ Failed("Overflow") \/ Failed("Underflow")
            /\ result.position < k

\* "12x"-like: two digits in range, then the offending character at index 2
NonDigitWitness ==
  /\ op = "to_int"
  /\ Len(Stripped(input)) = 3
  /\ NonDigitIndices(Stripped(input)) = {2}
  /\ LeadingWs(input) = 1
  /\ FailedAt("InvalidCharacter", 2)

(***************************************************************************)
(* C6 as stated: an unsigned target rejects every trimmed input that       *)
(* starts with '-' with Underflow, whatever follows the sign.              *)
(***************************************************************************)
StartsWithMinus(t) == Len(t) > 0 /\ t[1] = 45

UnsignedMinusIsUnderflow ==
  (op = "to_int" /\ ~target.signed /\ StartsWithMinus(Stripped(input))) =>
    Failed("Underflow")

(***************************************************************************)
(* C6 amended: an unsigned target rejects every trimmed input that starts  *)
(* with '-': with Underflow at position 0 when a digit follows the sign    *)
(* (whatever comes after that digit), with InvalidCharacter at position 0  *)
(* when nothing follows it, and with InvalidCharacter at position 1 when   *)
(* the character after the sign is not a digit.                            *)
(***************************************************************************)
UnsignedMinusRejected ==
  (op = "to_int" /\ ~target.signed /\ StartsWithMinus(Stripped(input))) =>
    LET t == Stripped(input) IN
    IF Len(t) = 1
    THEN FailedAt("InvalidCharacter", 0)
    ELSE IF IsDigitChar(t[2])
         THEN FailedAt("Underflow", 0)
         ELSE FailedAt("InvalidCharacter", 1)

\* "-1x"-like: the digit after the sign decides, the rest is not looked at
UnsignedMinusWitness ==
  /\ op = "to_int"
  /\ ~target.signed
  /\ Len(Stripped(input)) = 3
  /\ StartsWithMinus(Stripped(input))
  /\ IsDigitChar(Stripped(input)[2])
  /\ ~IsDigitChar(Stripped(input)[3])
  /\ FailedAt("Underflow", 0)

(***************************************************************************)
(* C7: a lone '+' or '-' fails with InvalidCharacter at position 0, a      *)
(* second sign fails with InvalidCharacter at position 1, and to_int       *)
(* never succeeds on an input without a digit.                             *)
(***************************************************************************)
SingleSignRule ==
  op = "to_int" =>
    LET t == Stripped(input) IN
    /\ (Len(t) = 1 /\ IsSign(t[1])) => FailedAt("InvalidCharacter", 0)
    /\ (Len(t) >= 2 /\ IsSign(t[1]) /\ IsSign(t[2])) => FailedAt("InvalidCharacter", 1)
    /\ result.ok => \E i \in 1..Len(t) : IsDigitChar(t[i])

\* "--1" for an unsigned target
SingleSignWitness ==
  /\ op = "to_int"
  /\ ~target.signed
  /\ Stripped(input) = <<45, 45, 49>>
  /\ FailedAt("InvalidCharacter", 1)

(***************************************************************************)
(* C8: a failing parser reports the caller's original text as the error's  *)
(* input, and a position set by the integer or float parser counts from    *)
(* the first non-whitespace character of that text.                        *)
(***************************************************************************)
\* characters a floating-point token is made of: digits, signs, '.', 'e',
\* 'E', and the letters of "infinity" and "nan" in either case
IsFloatChar(c) ==
  \/ IsDigitChar(c)
  \/ IsSign(c)
  \/ c \in {46, 69, 101}
  \/ c \in {105, 110, 102, 116, 121, 97, 73, 78, 70, 84, 89, 65}

\* the character of the caller's buffer at position p of the trimmed text
CharAt(p) == (input \o tail)[LeadingWs(input) + p + 1]

NameMatches(t, name, ci) ==
  /\ Len(name) = Len(t)
  /\ IF ci THEN Folded(name) = Folded(t) ELSE name = t

MatchingEntries(t, tbl, ci) ==
  { i \in 1..Len(tbl) : NameMatches(t, tbl[i].name, ci) }

MinOf(S) == CHOOSE i \in S : \A j \in S : i <= j

EnumFirstMatchWins ==
  (op = "to_enum" /\ ~IsBlank(input)) =>
    LET m == MatchingEntries(Stripped(input), entries, case_insensitive) IN
    IF m = {}
    THEN FailedAt("UnknownEnumValue", 0) /\ result.input = input
    ELSE Returned(entries[MinOf(m)].value)

\* two entries match under case folding with different values: the first wins
EnumFirstMatchWitness ==
  /\ op = "to_enum"
  /\ case_insensitive
  /\ Len(entries) = 2
  /\ MatchingEntries(Stripped(input), entries, TRUE) = {1, 2}
  /\ entries[1].name # entries[2].name
  /\ entries[1].value # entries[2].value
  /\ Returned(entries[1].value)

(***************************************************************************)
(* C10: to_string(value, table) returns the name of the first entry with   *)
(* that value, and fails with UnknownEnumValue and an empty input field    *)
(* exactly when the table has no such entry.                               *)
(***************************************************************************)
EntriesWithValue(v, tbl) == { i \in 1..Len(tbl) : tbl[i].value = v }

EnumToStringFirstEntry ==
  op = "to_string_enum" =>
    LET m == EntriesWithValue(value, entries) IN
    IF m = {}
    THEN Failed("UnknownEnumValue") /\ result.input = <<>>
    ELSE Returned(entries[MinOf(m)].name)

\* two entries carry the value under different names: the first name is returned
EnumToStringWitness ==
  /\ op = "to_string_enum"
  /\ EntriesWithValue(value, entries) = {1, 2}
  /\ entries[1].name # entries[2].name
  /\ Returned(entries[1].name)

(***************************************************************************)
(* C11: in to_float, when the host primitive consumed nothing of a         *)
(* non-empty trimmed text the call fails with InvalidFloat, and when it    *)
(* consumed some but fewer characters than the trimmed text has, the call  *)
(* fails with TrailingCharacters at the number of characters consumed,     *)
(* whether or not the primitive also reported a range error.               *)
(***************************************************************************)
PrefixErrorsBeforeRange ==
  (op = "to_float" /\ ~IsBlank(input)) =>
    /\ host.consumed = 0 => Failed("InvalidFloat")
    /\ (host.consumed > 0 /\ host.consumed < Len(Stripped(input))) =>
         FailedAt("TrailingCharacters", host.consumed)

\* "1e10000x"-like: a range error was reported on a numeric prefix, and the
\* call still fails with TrailingCharacters
PrefixErrorsWitness ==
  /\ op = "to_float"
  /\ host.erange
  /\ host.value.magnitude = "inf"
  /\ host.consumed > 0
  /\ host.consumed < Len(Stripped(input))
  /\ FailedAt("TrailingCharacters", host.consumed)

(***************************************************************************)
(* C12: in to_float, when the primitive consumed the whole trimmed text    *)
(* and reported a range error, the call fails with Underflow if the value  *)
(* returned is zero and with Overflow otherwise, a negative huge value     *)
(* included.                                                               *)
(***************************************************************************)
RangeErrorClassified ==
  (/\ op = "to_float"
   /\ ~IsBlank(input)
   /\ host.consumed = Len(Stripped(input))
   /\ host.erange) =>
    IF host.value.magnitude = "zero" THEN Failed("Underflow") ELSE Failed("Overflow")

\* "-1e10000"-like: the primitive returned -HUGE_VAL with a range error
RangeErrorWitness ==
  /\ op = "to_float"
  /\ host.consumed = Len(Stripped(input))
  /\ host.erange
  /\ host.value = FloatValue(TRUE, "inf")
  /\ Failed("Overflow")

(***************************************************************************)
(* C13: trim(s) is s without a prefix and a suffix made only of the six    *)
(* whitespace characters; the result is empty or begins and ends with a    *)
(* character that is not whitespace, so the prefix and the suffix are the  *)
(* longest ones and whitespace inside the result stays; and trimming the   *)
(* result again changes nothing.                                           *)
(***************************************************************************)
TrimContract ==
  op = "trim" =>
    LET s == input
        r == result.value
    IN
    /\ result.ok
    /\ \E i, j \in 0..Len(s) :
         /\ i + j <= Len(s)
         /\ \A k \in 1..i : s[k] \in Whitespace
         /\ \A k \in (Len(s) - j + 1)..Len(s) : s[k] \in Whitespace
         /\ r = SubSeq(s, i + 1, Len(s) - j)
    /\ r = <<>> \/ (r[1] \notin Whitespace /\ r[Len(r)] \notin Whitespace)
    /\ source = "trim" => r = s

\* whitespace was removed at both ends and kept between two other characters
TrimWitness ==
  /\ op = "trim"
  /\ source = "caller"
  /\ Len(input) = 5
  /\ input[1] \in Whitespace
  /\ input[5] \in Whitespace
  /\ input[3] = 11
  /\ Returned(<<97, 11, 97>>)

(***************************************************************************)
(* C14: a parser called on a text with whitespace added before and after   *)
(* it returns what it returned on the text itself: the same value, or the  *)
(* same error code and position.                                           *)
(***************************************************************************)
SameOutcome(a, b) ==
  /\ a.ok = b.ok
  /\ a.ok => a.value = b.value
  /\ ~a.ok => a.code = b.code /\ a.position = b.position

WhitespaceInvariance ==
  (op \in Parsers /\ source = "padded") => SameOutcome(prior, result)

\* the same, of the calls whose view is followed by the terminator
WhitespaceInvarianceTerminated ==
  (op \in Parsers /\ source = "padded" /\ tail = <<>>) => SameOutcome(prior, result)

(***************************************************************************)
(* C15: to_float calls running on several threads at once, with no         *)
(* synchronization and in any interleaving of their steps, each return     *)
(* what the same call returns when it runs alone.                          *)
(***************************************************************************)
ConcurrentCallsAsAlone ==
  \A t \in Threads :
    threads.calls[t].pc = "done" =>
      threads.calls[t].result =
        to_float(threads.calls[t].input, <<>>, threads.calls[t].h)

\* one thread has returned Underflow from a range error while another,
\* whose primitive reported none, is about to read errno
ConcurrentCallsWitness ==
  /\ threads.calls[1].pc = "done"
  /\ ~threads.calls[1].result.ok
  /\ threads.calls[1].result.code = "Underflow"
  /\ threads.calls[2].pc = "read"
  /\ ~threads.calls[2].h.erange
  /\ threads.calls[2].h.value = "normal"

(***************************************************************************)
(* C16: for every finite floating-point value f, to_float applied to the   *)
(* text to_string(f) returned succeeds and returns f.                      *)
(***************************************************************************)
IsFinite(f) == f.magnitude \in {"zero", "subnormal", "normal"}

FloatRoundTrip ==
  (op = "to_float" /\ source = "to_string" /\ IsFinite(value)) => Returned(value)

\* the same, of the values that are zero or at least the smallest normal number
FloatRoundTripNormal ==
  (op = "to_float" /\ source = "to_string" /\ value.magnitude \in {"zero", "normal"}) =>
    Returned(value)

(***************************************************************************)
(* C17: at every pass of parse_integer's loop the accumulator lies in      *)
(* [0, max] on the non-negative paths and in [min, 0] on the negative      *)
(* signed path; for every digit d, the guard value > (max - d) / 10 holds  *)
(* exactly when value * 10 + d > max, and the guard                        *)
(* value < (min + d) / 10 exactly when value * 10 - d < min; and the       *)
(* value * 10 -+ digit that was computed fitted the target type.           *)
(***************************************************************************)
OverflowSafety ==
  loop.pc = "digits" =>
    LET T == loop.T
        v == loop.value
    IN
    /\ IF loop.negative /\ T.signed
       THEN v >= Limits_min(T) /\ v <= 0
       ELSE v >= 0 /\ v <= Limits_max(T)
    /\ loop.raw = v
    /\ \A d \in 0..9 :
         IF loop.negative
         THEN T.signed => (UnderflowGuard(T, v, d) <=> v * 10 - d < Limits_min(T))
         ELSE OverflowGuard(T, v, d) <=> v * 10 + d > Limits_max(T)

\* the accumulator is one digit short of min: the next digit decides, and
\* the guard is false of the digit that reaches min and true of the next one
OverflowSafetyWitness ==
  /\ loop.pc = "digits"
  /\ loop.negative
  /\ loop.T.signed
  /\ loop.i < Len(loop.in)
  /\ \E d \in 0..8 :
       /\ loop.value * 10 - d = Limits_min(loop.T)
       /\ ~UnderflowGuard(loop.T, loop.value, d)
       /\ UnderflowGuard(loop.T, loop.value, d + 1)

\* the loop run pass by pass ends with what the whole call returns
LoopAgreesWithCall ==
  loop.pc = "done" => loop.result = parse_integer(loop.in, loop.T)

(***************************************************************************)
(* C18: when parse_integer fails with Overflow, or with Underflow for a    *)
(* signed target, the position is the index of the digit at which the      *)
(* value of the digits read so far leaves [min, max]: the digits before    *)
(* that index are in range, the digits through it are not, and no          *)
(* character after it was examined.                                        *)
(***************************************************************************)
RangeErrorAtFirstExcess ==
  (/\ loop.pc = "done"
   /\ ~loop.result.ok
   /\ \/ loop.result.code = "Overflow"
      \/ loop.result.code = "Underflow" /\ loop.T.signed) =>
    LET t == loop.in
        p == loop.result.position
    IN
    /\ p < Len(t)
    /\ IsDigitChar(t[p + 1])
    /\ \A q \in 0..p : IsDigitChar(t[q + 1]) \/ (q = 0 /\ IsSign(t[1]))
    /\ PrefixFits(loop.T, t, p)
    /\ ~PrefixFits(loop.T, t, p + 1)
    /\ \A q \in loop.examined : q <= p

\* "128x"-like: the third digit leaves the range and a character follows it
RangeErrorPositionWitness ==
  /\ loop.pc = "done"
  /\ ~loop.result.ok
  /\ loop.result.code = "Overflow"
  /\ loop.result.position = 2
  /\ Len(loop.in) = 4
  /\ loop.examined = {0, 1, 2}

(***************************************************************************)
(* C19: a successful to_float returns a finite value, and a value the      *)
(* primitive produced without a range error that is not finite (an         *)
(* infinity or a NaN; a magnitude beyond the target's range is an infinity *)
(* of the target's own primitive) is rejected with Overflow.               *)
(***************************************************************************)
WholeTextConsumed ==
  op = "to_float" /\ ~IsBlank(input) /\ host.consumed = Len(Stripped(input))

SuccessIsFinite ==
  op = "to_float" =>
    /\ result.ok => IsFinite(result.value)
    /\ (WholeTextConsumed /\ ~host.erange /\ ~IsFinite(host.value)) =>
         Failed("Overflow")

\* the same, of the infinities alone
InfinityIsOverflow ==
  (WholeTextConsumed /\ ~host.erange /\ host.value.magnitude = "inf") =>
    Failed("Overflow")

(***************************************************************************)
(* C20: to_float fails with Overflow only when the number written is       *)
(* larger in magnitude than the largest finite value of the target type,   *)
(* and with Underflow only when it is nonzero and smaller in magnitude     *)
(* than every value the target type can represent.                         *)
(***************************************************************************)
\* where the magnitude of the number written lies, as the primitive's
\* report tells: a range error with zero is a nonzero number that rounds to
\* zero, a range error with a subnormal result a number between the
\* smallest subnormal and the smallest normal number
WrittenMagnitude ==
  CASE host.value.magnitude = "inf" -> "above max"
    [] host.value.magnitude = "zero" /\ host.erange -> "below smallest"
    [] host.value.magnitude = "zero" -> "zero"
    [] OTHER -> host.value.magnitude

RangeCodesMatchMagnitude ==
  op = "to_float" =>
    /\ Failed("Overflow") => WrittenMagnitude = "above max"
    /\ Failed("Underflow") => WrittenMagnitude = "below smallest"

\* the same, of Underflow alone
UnderflowMatchesMagnitude ==
  (op = "to_float" /\ Failed("Underflow")) => WrittenMagnitude = "below smallest"

(***************************************************************************)
(* C21: a failed conversion carries a code of its operation's own set and  *)
(* never None: to_bool EmptyInput or InvalidBoolean; to_int EmptyInput,    *)
(* InvalidCharacter, Overflow or Underflow; to_float EmptyInput,           *)
(* InvalidFloat, TrailingCharacters, Overflow or Underflow; to_enum        *)
(* EmptyInput or UnknownEnumValue; enum to_string UnknownEnumValue.        *)
(***************************************************************************)
CodesOf(o) ==
  CASE o = "to_bool" -> {"EmptyInput", "InvalidBoolean"}
    [] o = "to_int" -> {"EmptyInput", "InvalidCharacter", "Overflow", "Underflow"}
    [] o = "to_float" -> {"EmptyInput", "InvalidFloat", "TrailingCharacters",
                          "Overflow", "Underflow"}
    [] o = "to_enum" -> {"EmptyInput", "UnknownEnumValue"}
    [] o = "to_string_enum" -> {"UnknownEnumValue"}
    [] OTHER -> {}

ViewAloneDecides ==
  op = "to_float" =>
    /\ source = "rebuffered" => SameOutcome(prior, result)
    /\ ~IsBlank(input) => host.consumed <= Len(Stripped(input))
    /\ ~result.ok => result.position <= Len(Stripped(input))

\* the same, of the calls whose view is followed by the terminator
ViewDecidesWhenTerminated ==
  (op = "to_float" /\ tail = <<>>) =>
    /\ ~IsBlank(input) => host.consumed <= Len(Stripped(input))
    /\ ~result.ok => result.position <= Len(Stripped(input))

(***************************************************************************)
(* C23: in the fallback expected<T, E>, after any sequence of construction *)
(* from a value or from unexpected, copy or move construction and copy or  *)
(* move assignment (self-assignment included), every object has exactly    *)
(* one live union member and has_value() is true exactly when that member  *)
(* is the value; after a copy construction or copy assignment the target   *)
(* holds the variant and content of the source and the source is as it     *)
(* was; and no destructor run has destroyed a member that was not live or  *)
(* left a live member behind.                                              *)
(***************************************************************************)
OneLiveMember(o) ==
  /\ o.val_live # o.err_live
  /\ o.has_ <=> o.val_live

SameContent(a, b) ==
  /\ a.has_ = b.has_
  /\ a.has_ => a.val_ = b.val_
  /\ ~a.has_ => a.err_ = b.err_

ExpectedOneLiveMember ==
  /\ \A x \in Slots : objects.slot[x].made => OneLiveMember(objects.slot[x])
  /\ objects.last.kind = "copy" =>
       /\ SameContent(objects.slot[objects.last.target],
                      objects.slot[objects.last.source])
       /\ objects.slot[objects.last.source] = objects.last.before
  /\ objects.faults = {}

\* C23 restricted to the histories in which no constructor of T has thrown
ExpectedSoundUnlessThrown ==
  ~objects.thrown => ExpectedOneLiveMember

\* the names of the table are non-empty, begin and end with a character
\* that is not whitespace, and no two of them are equal after folding
RoundTripTable(tbl) ==
  /\ \A i \in 1..Len(tbl) :
       /\ Len(tbl[i].name) > 0
       /\ tbl[i].name[1] \notin Whitespace
       /\ tbl[i].name[Len(tbl[i].name)] \notin Whitespace
  /\ \A i, j \in 1..Len(tbl) :
       i # j => Folded(tbl[i].name) # Folded(tbl[j].name)

(***************************************************************************)
(* C24: enum round trip.  For a table whose names are non-empty, carry no  *)
(* leading or trailing whitespace and are pairwise distinct under case     *)
(* folding, and a value v that occurs in it, to_enum of the text to_string *)
(* wrote for v succeeds and returns v, in both modes.                      *)
(***************************************************************************)
EnumRoundTrip ==
  (/\ op = "to_enum"
   /\ source = "to_string"
   /\ RoundTripTable(entries)
   /\ EntriesWithValue(value, entries) # {}) =>
    /\ result.ok
    /\ result.value = value

\* v occurs under two names and the second entry is the one skipped
EnumRoundTripWitness ==
  /\ op = "to_enum"
  /\ source = "to_string"
  /\ RoundTripTable(entries)
  /\ Len(entries) = 2
  /\ entries[1].value = value
  /\ entries[2].value = value
  /\ ~case_insensitive
  /\ result.ok
  /\ result.value = value

\* without the preconditions the round trip may fail: C24 for every table
EnumRoundTripAnyTable ==
  (/\ op = "to_enum"
   /\ source = "to_string"
   /\ EntriesWithValue(value, entries) # {}) =>
    /\ result.ok
    /\ result.value = value

\* the loop index of the loop the call is in
ScanIndex(sc) ==
  CASE sc.pc = "ltrim" -> sc.lo
    [] sc.pc = "rtrim" -> sc.hi
    [] sc.pc \in {"keywords", "digits", "chars"} -> sc.j
    [] sc.pc \in {"entries", "names"} -> sc.k
    [] OTHER -> 0

\* the step is one more iteration of the loop the call was already in: the
\* same loop and, for an inner loop, the same keyword or entry
SameLoop ==
  /\ scan.pc \notin {"idle", "done"}
  /\ scan'.pc = scan.pc
  /\ scan.pc \in {"keywords", "chars"} => scan'.k = scan.k

\* every iteration moves the index of its loop by one, up or, in rtrim, down
IndexMoves ==
  SameLoop =>
    IF scan.pc = "rtrim"
    THEN ScanIndex(scan') < ScanIndex(scan)
    ELSE ScanIndex(scan') > ScanIndex(scan)

\* to_bool goes through its keywords, and to_enum through its entries, in
\* one direction only
OuterIndexMoves ==
  (/\ scan.pc \in {"keywords", "entries", "chars"}
   /\ scan'.pc \in {"keywords", "entries", "chars"}) => scan'.k >= scan.k

\* the resource bounds of parse_integer and to_enum, in every state of a call
ScanBounds ==
  /\ scan.call = "to_int" =>
       /\ \A p \in 1..Len(scan.reads) : scan.reads[p] <= 1
       /\ (scan.pc = "done" /\ ~scan.result.ok) =>
            \A p \in 1..Len(scan.reads) :
              p > scan.j + 1 => scan.reads[p] = 0
  /\ scan.call = "to_enum" =>
       scan.compared <= Len(scan.tbl) * Len(ScanView(scan))

ScanAgreesWithCall ==
  scan.pc = "done" =>
    scan.result =
      CASE scan.call = "trim" -> Ok(trim(scan.in))
        [] scan.call = "to_bool" -> to_bool(scan.in)
        [] scan.call = "to_int" -> to_int(scan.in, scan.T)
        [] scan.call = "to_enum" -> to_enum(scan.in, scan.tbl, scan.ci)
        [] scan.call = "to_string" -> to_string_enum(scan.v, scan.tbl)

====
